---- MODULE Spec2Model ----
(***************************************************************************)
(* A model of the tree-based two-pass Markdown parser of                   *)
(* src/src/prototype.rs: the first pass (FirstPass), the line scanner      *)
(* (parse_line), the inline resolver (handle_inline) and the event         *)
(* iterator (Parser::next).                                                *)
(*                                                                         *)
(* Conventions.  The input text is a sequence of one-character strings;    *)
(* byte offsets are 0-based as in the source, so the byte at offset i is   *)
(* t[i+1].  Arena indices are 0-based as in the source: node k is          *)
(* nodes[k+1], and NIL is the sentinel "no node".  An Option is modelled   *)
(* as <<>> (None) or <<v>> (Some(v)).  A panic of the program (an index    *)
(* out of range, unwrap of None, panic!, unreachable!) is the field        *)
(* panic = TRUE of the state record; a loop that never ends is the field   *)
(* hang = TRUE.                                                            *)
(***************************************************************************)
EXTENDS Integers, Sequences, FiniteSets, TLC

\* The sentinel index "no node" (tree::NIL, !0 in the source).
NIL == -1

\* The backtick byte: a TLA+ string cannot hold the character itself.
BT == "BT"

\* The byte of t at 0-based offset i.
B(t, i) == t[i + 1]

Min2(a, b) == IF a < b THEN a ELSE b

(***************************************************************************)
(* Character classifiers of the scanner library.                           *)
(***************************************************************************)
LowerAlpha == {"a", "b", "c", "d", "e", "f", "g", "h", "i", "j", "k", "l", "m",
               "n", "o", "p", "q", "r", "s", "t", "u", "v", "w", "x", "y", "z"}
UpperAlpha == {"A", "B", "C", "D", "E", "F", "G", "H", "I", "J", "K", "L", "M",
               "N", "O", "P", "Q", "R", "S", "T", "U", "V", "W", "X", "Y", "Z"}
Digits == {"0", "1", "2", "3", "4", "5", "6", "7", "8", "9"}

is_ascii_alpha(c) == c \in LowerAlpha \/ c \in UpperAlpha
is_ascii_alphanumeric(c) == is_ascii_alpha(c) \/ c \in Digits
is_ascii_letterdigitdash(c) == is_ascii_alphanumeric(c) \/ c = "-"
is_ascii_whitespace(c) == c \in {" ", "\t", "\n", "\r", "\f"}
is_ascii_whitespace_no_nl(c) == c \in {" ", "\t", "\f"}
is_ascii_punctuation(c) ==
    c \in {"!", "\"", "#", "$", "%", "&", "'", "(", ")", "*", "+", ",", "-", ".",
           "/", ":", ";", "<", "=", ">", "?", "@", "[", "\\", "]", "^", "_", BT,
           "{", "|", "}", "~"}

(***************************************************************************)
(* Bytes without an escape in a string are named by their two hexadecimal  *)
(* digits: byte 0x0B is "<0B>", byte 0xC3 is "<C3>".                       *)
(***************************************************************************)
HexDigits ==
    <<"0", "1", "2", "3", "4", "5", "6", "7", "8", "9", "A", "B", "C", "D", "E", "F">>

ByteName(n) == "<" \o HexDigits[(n \div 16) + 1] \o HexDigits[(n % 16) + 1] \o ">"

\* The bytes 0x00 to 0x1F.
ControlBytes == {ByteName(n) : n \in 0..31} \cup {"\t", "\n", "\r", "\f"}

\* The bytes that, taken as a char, are whitespace for char::is_whitespace:
\* U+0009 to U+000D, U+0020, U+0085 and U+00A0.
CharWhitespace == {" ", "\t", "\n", "\r", "\f", "<0B>", "<85>", "<A0>"}

\* The bytes 0x80 to 0xBF, which continue a UTF-8 character.
ContinuationBytes == {ByteName(n) : n \in 128..191}

LeadBytes2 == {ByteName(n) : n \in 192..223}

LeadBytes3 == {ByteName(n) : n \in 224..239}

LeadBytes4 == {ByteName(n) : n \in 240..247}

\* The length of the character whose first byte is b.
len_utf8(b) ==
    IF b \in LeadBytes2 THEN 2
    ELSE IF b \in LeadBytes3 THEN 3
    ELSE IF b \in LeadBytes4 THEN 4
    ELSE 1

\* str::is_char_boundary.
is_char_boundary(t, i) ==
    \/ i = 0
    \/ i = Len(t)
    \/ i < Len(t) /\ B(t, i) \notin ContinuationBytes

\* The character of n bytes at offset i, its bytes joined into one string,
\* and its bytes.
char_bytes(t, i, n) == SubSeq(t, i + 1, Min2(i + n, Len(t)))

RECURSIVE join_bytes(_)
join_bytes(bs) == IF Len(bs) = 1 THEN bs[1] ELSE bs[1] \o join_bytes(Tail(bs))

char_at(t, i, n) == join_bytes(char_bytes(t, i, n))

(***************************************************************************)
(* The scanner library.  Every scanner takes the text t and the offset i   *)
(* of the slice &t[i..] it is applied to, and returns lengths relative     *)
(* to i.                                                                   *)
(***************************************************************************)
RECURSIVE scan_ch_repeat(_, _, _)
scan_ch_repeat(t, i, c) ==
    IF i < Len(t) /\ B(t, i) = c THEN 1 + scan_ch_repeat(t, i + 1, c) ELSE 0

RECURSIVE scan_whitespace_no_nl(_, _)
scan_whitespace_no_nl(t, i) ==
    IF i < Len(t) /\ is_ascii_whitespace_no_nl(B(t, i))
    THEN 1 + scan_whitespace_no_nl(t, i + 1) ELSE 0

\* (bytes of the line ending, whether at a line ending); true at end of input.
scan_eol(t, i) ==
    IF i >= Len(t) THEN <<0, TRUE>>
    ELSE IF B(t, i) = "\n" THEN <<1, TRUE>>
    ELSE IF B(t, i) = "\r"
         THEN <<IF i + 1 < Len(t) /\ B(t, i + 1) = "\n" THEN 2 ELSE 1, TRUE>>
    ELSE <<0, FALSE>>

scan_blank_line(t, i) ==
    LET w == scan_whitespace_no_nl(t, i)
        e == scan_eol(t, i + w)
    IN  IF e[2] THEN <<w + e[1]>> ELSE <<>>

\* Bytes up to and including the next "\n", or to the end of input.
RECURSIVE scan_nextline(_, _)
scan_nextline(t, i) ==
    IF i >= Len(t) THEN 0
    ELSE IF B(t, i) = "\n" THEN 1
    ELSE 1 + scan_nextline(t, i + 1)

\* Whether byte c occurs in t[from, to).
RECURSIVE contains_byte(_, _, _, _)
contains_byte(t, from, to, c) ==
    IF from >= to THEN FALSE
    ELSE IF B(t, from) = c THEN TRUE
    ELSE contains_byte(t, from + 1, to, c)

\* Whether the sequence s occurs in t at offset i.
starts_with(t, i, s) ==
    /\ i + Len(s) <= Len(t)
    /\ \A k \in 1..Len(s) : B(t, i + k - 1) = s[k]

\* Whether the sequence s occurs somewhere in t[from, to).
contains_str(t, from, to, s) ==
    \E k \in from..(to - Len(s)) : starts_with(t, k, s)

\* The loop of scan_hrule from offset j: <<offset reached, count of c>>, or
\* <<>> when a byte that is neither c nor a blank is met.
RECURSIVE hrule_loop(_, _, _, _)
hrule_loop(t, j, c, n) ==
    IF j >= Len(t) THEN <<j, n>>
    ELSE IF B(t, j) \in {"\n", "\r"} THEN <<j + scan_eol(t, j)[1], n>>
    ELSE IF B(t, j) = c THEN hrule_loop(t, j + 1, c, n + 1)
    ELSE IF B(t, j) \in {" ", "\t"} THEN hrule_loop(t, j + 1, c, n)
    ELSE <<>>

\* Length of a thematic break line starting at i (line ending included), or 0.
\* Length of a thematic break line starting at i (line ending included), or 0.
scan_hrule(t, i) ==
    IF i + 2 >= Len(t) THEN 0
    ELSE IF B(t, i) \notin {"*", "-", "_"} THEN 0
    ELSE LET r == hrule_loop(t, i, B(t, i), 0)
         IN  IF r = <<>> THEN 0
             ELSE IF r[2] >= 3 THEN r[1] - i ELSE 0

\* Some(<<prefix length, level>>) for 1..6 hash signs followed by whitespace, a line
\* ending or the end of input.
scan_atx_heading(t, i) ==
    LET level == scan_ch_repeat(t, i, "#")
    IN  IF level >= 1 /\ level <= 6
        THEN IF i + level < Len(t) /\ ~is_ascii_whitespace(B(t, i + level))
             THEN <<>>
             ELSE <<(<<level, level>>)>>
        ELSE <<>>

\* <<length of the fence run, fence character>>, or <<0, "">>.
scan_code_fence(t, i) ==
    IF i >= Len(t) \/ B(t, i) \notin {BT, "~"} THEN <<0, "">>
    ELSE LET c == B(t, i)
             n == scan_ch_repeat(t, i, c)
         IN  IF n >= 3
             THEN IF c = BT /\ contains_byte(t, i + n, i + n + scan_nextline(t, i + n), BT)
                  THEN <<0, "">>
                  ELSE <<n, c>>
             ELSE <<0, "">>

\* Some(length) when the slice is a closing fence: at least n_fence_char
\* fence characters followed only by spaces up to the line ending.  The
\* empty slice at the end of input holds no fence character: None.
scan_closing_code_fence(t, i, fence_ch, n_fence_char) ==
    LET n == scan_ch_repeat(t, i, fence_ch)
        sp == scan_ch_repeat(t, i + n, " ")
    IN  IF n < n_fence_char THEN <<>>
        ELSE IF scan_eol(t, i + n + sp)[2] THEN <<n + sp>> ELSE <<>>

\* Some(<<length, level>>): a run of = (level 1) or - (level 2) followed
\* by a blank rest of line.
scan_setext_heading(t, i) ==
    IF i >= Len(t) THEN <<>>
    ELSE IF B(t, i) \notin {"=", "-"} THEN <<>>
    ELSE LET c == B(t, i)
             n == scan_ch_repeat(t, i, c)
             bl == scan_blank_line(t, i + n)
         IN  IF bl = <<>> THEN <<>>
             ELSE <<(<<n + bl[1], IF c = "=" THEN 1 ELSE 2>>)>>

scan_blockquote_start(t, i) ==
    IF i < Len(t) /\ B(t, i) = ">"
    THEN IF i + 1 < Len(t) /\ B(t, i + 1) = " " THEN 2 ELSE 1
    ELSE 0

RECURSIVE scan_digits(_, _)
scan_digits(t, i) ==
    IF i < Len(t) /\ B(t, i) \in Digits THEN 1 + scan_digits(t, i + 1) ELSE 0

\* Bytes of a list item marker at i (first component of the library's
\* scan_listitem), 0 when there is none: a bullet or digits with . or ),
\* followed by a space or a line ending.
\* Bytes of the marker itself: a bullet, or digits with . or ).
scan_listitem(t, i) ==
    IF i >= Len(t) THEN 0
    ELSE LET c == B(t, i)
             w == IF c \in {"-", "+", "*"} THEN 1
                  ELSE IF c \in Digits
                       THEN LET d == scan_digits(t, i)
                            IN  IF i + d < Len(t) /\ B(t, i + d) \in {".", ")"}
                                THEN d + 1 ELSE 0
                       ELSE 0
             sp == Min2(scan_ch_repeat(t, i + w, " "), 5)
         IN  IF w = 0 THEN 0
             ELSE IF scan_blank_line(t, i + w) # <<>> THEN w
             ELSE IF sp = 0 THEN 0
             ELSE IF sp > 4 THEN w + 1
             ELSE w + sp

RECURSIVE scan_while_alnum(_, _)
scan_while_alnum(t, i) ==
    IF i < Len(t) /\ is_ascii_alphanumeric(B(t, i))
    THEN 1 + scan_while_alnum(t, i + 1) ELSE 0

RECURSIVE scan_while_alpha(_, _)
scan_while_alpha(t, i) ==
    IF i < Len(t) /\ is_ascii_alpha(B(t, i))
    THEN 1 + scan_while_alpha(t, i + 1) ELSE 0

RECURSIVE scan_while_ldd(_, _)
scan_while_ldd(t, i) ==
    IF i < Len(t) /\ is_ascii_letterdigitdash(B(t, i))
    THEN 1 + scan_while_ldd(t, i + 1) ELSE 0

\* <<bytes scanned, tag name>> for "<", an optional "/", and a tag name.
scan_html_block_tag(t, i) ==
    IF i >= Len(t) \/ B(t, i) # "<" THEN <<0, <<>> >>
    ELSE LET s == IF i + 1 < Len(t) /\ B(t, i + 1) = "/" THEN 2 ELSE 1
             n == scan_while_alnum(t, i + s)
         IN  <<s + n, SubSeq(t, i + s + 1, i + s + n)>>

\* The block-level tag names of HTML block type 6 that the modelled inputs
\* can spell.
HTML_TAGS == { <<"p">>, <<"d", "d">>, <<"d", "l">>, <<"d", "t">>, <<"t", "d">>,
               <<"h", "r">>, <<"l", "i">>, <<"u", "l">>, <<"o", "l">>,
               <<"d", "i", "v">> }

is_html_tag(tag) == tag \in HTML_TAGS

\* Some(length) for a line that is one complete open or closing tag
\* (HTML block type 7); attributes are not part of the modelled inputs.
scan_html_type_7(t, i) ==
    IF i >= Len(t) \/ B(t, i) # "<" THEN <<>>
    ELSE LET close == IF i + 1 < Len(t) /\ B(t, i + 1) = "/" THEN 1 ELSE 0
             a == i + 1 + close
             l == scan_while_alpha(t, a)
             b == a + l + scan_while_ldd(t, a + l)
             c == b + scan_whitespace_no_nl(t, b)
             d == IF close = 0 /\ c < Len(t) /\ B(t, c) = "/" THEN c + 1 ELSE c
         IN  IF l = 0 THEN <<>>
             ELSE IF d < Len(t) /\ B(t, d) = ">" /\ scan_blank_line(t, d + 1) # <<>>
                  THEN <<d + 1 - i>>
                  ELSE <<>>

(***************************************************************************)
(* LineStart: the cursor over the leading whitespace and container         *)
(* markers of the line that starts at offset base.  ix is bytes scanned,   *)
(* spaces_remaining the unconsumed columns of a partly consumed tab.       *)
(* A method returns <<the cursor after the call, the result>>.             *)
(***************************************************************************)
LineStart_new(i) == [base |-> i, ix |-> 0, tab_start |-> 0, spaces_remaining |-> 0]

ls_bytes_scanned(ls) == ls.ix
ls_remaining_space(ls) == ls.spaces_remaining

RECURSIVE scan_space_loop(_, _, _)
scan_space_loop(t, ls, n) ==
    IF n > 0 /\ ls.base + ls.ix < Len(t)
    THEN LET c == B(t, ls.base + ls.ix)
         IN  IF c = " "
             THEN scan_space_loop(t, [ls EXCEPT !.ix = @ + 1], n - 1)
             ELSE IF c = "\t"
             THEN LET spaces == 4 - ((ls.ix - ls.tab_start) % 4)
                      k == Min2(spaces, n)
                  IN  scan_space_loop(t, [ls EXCEPT !.ix = @ + 1,
                                                    !.tab_start = ls.ix + 1,
                                                    !.spaces_remaining = spaces - k],
                                      n - k)
             ELSE <<ls, n>>
    ELSE <<ls, n>>

\* <<cursor, the spaces of n_space that were not found>>
scan_space_inner(t, ls, n_space) ==
    LET k == Min2(ls.spaces_remaining, n_space)
    IN  scan_space_loop(t, [ls EXCEPT !.spaces_remaining = @ - k], n_space - k)

\* The result of scan_space from that of scan_space_inner.
scan_space_found(r) == <<r[1], r[2] = 0>>

\* Consumes some spaces even when it fails.
scan_space(t, ls, n_space) == scan_space_found(scan_space_inner(t, ls, n_space))

scan_space_upto(t, ls, n_space) ==
    LET r == scan_space_inner(t, ls, n_space) IN <<r[1], n_space - r[2]>>

RECURSIVE count_blanks(_, _)
count_blanks(t, i) ==
    IF i < Len(t) /\ B(t, i) \in {" ", "\t"} THEN 1 + count_blanks(t, i + 1) ELSE 0

scan_all_space(t, ls) ==
    [ls EXCEPT !.spaces_remaining = 0, !.ix = @ + count_blanks(t, ls.base + ls.ix)]

is_at_eol(t, ls) ==
    \/ ls.base + ls.ix >= Len(t)
    \/ B(t, ls.base + ls.ix) \in {"\r", "\n"}

\* a is the cursor after up to 3 spaces.
scan_blockquote_marker_at(t, ls, a) ==
    IF a.base + a.ix < Len(t) /\ B(t, a.base + a.ix) = ">"
    THEN <<scan_space(t, [a EXCEPT !.ix = @ + 1], 1)[1], TRUE>>
    ELSE <<ls, FALSE>>

scan_blockquote_marker(t, ls) ==
    scan_blockquote_marker_at(t, ls, scan_space(t, ls, 3)[1])

\* After the marker and one space: a blank rest of line is left unscanned;
\* otherwise up to 3 further spaces belong to the indent, and 4 or more are
\* left for an indented code block.
finish_list_marker(t, ls, c, start, indent) ==
    IF scan_blank_line(t, ls.base + ls.ix) # <<>>
    THEN <<ls, <<(<<c, start, indent>>)>> >>
    ELSE LET r == scan_space_upto(t, ls, 4)
         IN  IF r[2] < 4
             THEN <<r[1], <<(<<c, start, indent + r[2]>>)>> >>
             ELSE <<ls, <<(<<c, start, indent>>)>> >>

DigitVal(c) == CHOOSE v \in 0..9 : ToString(v) = c

RECURSIVE digits_value(_, _, _)
digits_value(t, i, n) ==
    IF n = 0 THEN 0 ELSE digits_value(t, i, n - 1) * 10 + DigitVal(B(t, i + n - 1))

\* <<cursor, Some(<<marker character, start index, indent>>)>>, the cursor
\* unchanged when there is no marker.
\* After the marker byte: m is the scan of one space.  The indent of a
\* bullet item is counted as 2, that of an ordered item by the bytes scanned.
scan_list_marker(t, ls) ==
    LET r == scan_space_upto(t, ls, 3)
        a == r[1]
        indent == r[2]
        p == a.base + a.ix
    IN  IF p >= Len(t) THEN <<ls, <<>> >>
        ELSE IF B(t, p) \in {"-", "+", "*"}
        THEN LET m == scan_space(t, [a EXCEPT !.ix = @ + 1], 1)
             IN  IF m[2] \/ is_at_eol(t, m[1])
                 THEN finish_list_marker(t, m[1], B(t, p), 0, indent + 2)
                 ELSE <<ls, <<>> >>
        ELSE IF B(t, p) \in Digits
        THEN LET d == scan_digits(t, p)
             IN  IF d <= 9 /\ p + d < Len(t) /\ B(t, p + d) \in {".", ")"}
                 THEN LET m == scan_space(t, [a EXCEPT !.ix = @ + d + 1], 1)
                      IN  IF m[2] \/ is_at_eol(t, m[1])
                          THEN finish_list_marker(t, m[1], B(t, p + d),
                                                  digits_value(t, p, d),
                                                  indent + (m[1].ix - a.ix))
                          ELSE <<ls, <<>> >>
                 ELSE <<ls, <<>> >>
        ELSE <<ls, <<>> >>

(***************************************************************************)
(* The tree arena.  A node is [start, end, body, child, next]; the tree    *)
(* state is a record with fields nodes, cur and spine (and, in the first   *)
(* pass, last_line_blank), plus the panic and hang flags.                  *)
(***************************************************************************)
Nd(ns, k) == ns[k + 1]

Item(start, end, body) == [start |-> start, end |-> end, body |-> body]

create_node(ns, item) ==
    Append(ns, [start |-> item.start, end |-> item.end, body |-> item.body,
                child |-> NIL, next |-> NIL])

\* append: a new node as next sibling of cur, or as first child of the
\* innermost spine node when cur is NIL; cur moves to the new node.
append(tr, item) ==
    LET this == Len(tr.nodes)
        ns1 == create_node(tr.nodes, item)
        ns2 == IF tr.cur # NIL
               THEN [ns1 EXCEPT ![tr.cur + 1].next = this]
               ELSE IF tr.spine # <<>>
               THEN [ns1 EXCEPT ![tr.spine[Len(tr.spine)] + 1].child = this]
               ELSE ns1
    IN  [tr EXCEPT !.nodes = ns2, !.cur = this]

\* push: descend below cur.
push(tr) ==
    IF tr.cur = NIL THEN [tr EXCEPT !.panic = TRUE]
    ELSE [tr EXCEPT !.spine = Append(@, tr.cur), !.cur = NIL]

\* pop: ascend to the innermost open container.
tree_pop(tr) ==
    IF tr.spine = <<>> THEN [tr EXCEPT !.panic = TRUE]
    ELSE [tr EXCEPT !.cur = tr.spine[Len(tr.spine)],
                    !.spine = SubSeq(@, 1, Len(@) - 1)]

peek_up(tr) == IF tr.spine = <<>> THEN <<>> ELSE <<tr.spine[Len(tr.spine)]>>

peek_grandparent(tr) ==
    IF Len(tr.spine) >= 2 THEN <<tr.spine[Len(tr.spine) - 1]>> ELSE <<>>

append_text(tr, start, end) ==
    IF end > start THEN append(tr, Item(start, end, [tag |-> "Text"])) ELSE tr

(***************************************************************************)
(* Tight-list surgery.                                                     *)
(***************************************************************************)
Tag(ns, k) == Nd(ns, k).body.tag

RECURSIVE last_sibling(_, _)
last_sibling(ns, k) ==
    IF Nd(ns, k).next = NIL THEN k ELSE last_sibling(ns, Nd(ns, k).next)

\* The loop over the children of one list item: a record [nodes, panic].
\* A Paragraph without children makes the source index nodes[NIL].
RECURSIVE surgerize_children(_, _, _)
surgerize_children(ns, child, node_to_repoint) ==
    IF child = NIL THEN [nodes |-> ns, panic |-> FALSE]
    ELSE IF Tag(ns, child) = "Paragraph"
    THEN LET firstborn == Nd(ns, child).child
             ns1 == IF node_to_repoint # NIL
                    THEN [ns EXCEPT ![node_to_repoint + 1].next = firstborn]
                    ELSE ns
         IN  IF firstborn = NIL THEN [nodes |-> ns1, panic |-> TRUE]
             ELSE LET lastborn == last_sibling(ns1, firstborn)
                      ns2 == [ns1 EXCEPT ![lastborn + 1].next = Nd(ns1, child).next]
                  IN  surgerize_children(ns2, Nd(ns2, child).next, lastborn)
    ELSE surgerize_children(ns, Nd(ns, child).next, child)

RECURSIVE surgerize_items(_, _)
surgerize_items(ns, this_listitem) ==
    IF this_listitem = NIL THEN [nodes |-> ns, panic |-> FALSE]
    ELSE IF Tag(ns, this_listitem) = "ListItem" /\ Nd(ns, this_listitem).child # NIL
    THEN LET firstborn == Nd(ns, this_listitem).child
             ns1 == IF Tag(ns, firstborn) = "Paragraph"
                    THEN [ns EXCEPT ![this_listitem + 1].child = Nd(ns, firstborn).child]
                    ELSE ns
             r == surgerize_children(ns1, firstborn, NIL)
         IN  IF r.panic THEN r
             ELSE surgerize_items(r.nodes, Nd(r.nodes, this_listitem).next)
    ELSE surgerize_items(ns, Nd(ns, this_listitem).next)

\* A variant of the surgery that leaves the paragraphs of the items in place.
surgerize_nothing(tr) == tr

\* The tree with the nodes the surgery returned.
surgerized(tr, r) == [tr EXCEPT !.nodes = r.nodes, !.panic = r.panic]

\* tr.cur is a List node.
surgerize_tight_list(tr) ==
    surgerized(tr, surgerize_items(tr.nodes, Nd(tr.nodes, tr.cur).child))

(***************************************************************************)
(* The first pass.  Its state fp is the tree record with last_line_blank.  *)
(* Operations that return an offset return [fp, ix].                       *)
(***************************************************************************)
IsTightList(body) == body.tag = "List" /\ body.is_tight

\* FirstPass::pop: pop a container, setting its end; a tight list is
\* surgerized.
FirstPass_pop(fp, ix) ==
    IF fp.panic THEN fp
    ELSE LET a == tree_pop(fp)
         IN  IF a.panic THEN a
             ELSE LET b == [a EXCEPT !.nodes[a.cur + 1].end = ix]
                  IN  IF IsTightList(Nd(b.nodes, b.cur).body)
                      THEN surgerize_tight_list(b)
                      ELSE b

RECURSIVE pop_times(_, _, _)
pop_times(fp, n, ix) ==
    IF n <= 0 \/ fp.panic THEN fp ELSE pop_times(FirstPass_pop(fp, ix), n - 1, ix)

\* The second half of finish_list, on the tree a with the list closed.
finish_list_blank(a) ==
    IF a.panic THEN a
    ELSE IF a.last_line_blank
    THEN LET gp == peek_grandparent(a)
             ns == IF gp # <<>> /\ Tag(a.nodes, gp[1]) = "List"
                   THEN [a.nodes EXCEPT ![gp[1] + 1].body.is_tight = FALSE]
                   ELSE a.nodes
         IN  [a EXCEPT !.nodes = ns, !.last_line_blank = FALSE]
    ELSE a

\* Close a list if it is open; a preceding blank line loosens the
\* grandparent list.
finish_list(fp, ix) ==
    IF fp.panic THEN fp
    ELSE LET up == peek_up(fp)
         IN  finish_list_blank(IF up # <<>> /\ Tag(fp.nodes, up[1]) = "List"
                               THEN FirstPass_pop(fp, ix) ELSE fp)

\* A variant that continues the open list whatever its marker character.
continue_list_any(fp, start, ch, index) ==
    IF fp.panic THEN fp
    ELSE LET up == peek_up(fp)
             open == up # <<>> /\ Tag(fp.nodes, up[1]) = "List"
         IN  IF open
             THEN IF fp.last_line_blank
                  THEN [fp EXCEPT !.nodes[up[1] + 1].body.is_tight = FALSE,
                                  !.last_line_blank = FALSE]
                  ELSE fp
             ELSE LET a == IF up # <<>> THEN finish_list(fp, start) ELSE fp
                  IN  IF a.panic THEN a
                      ELSE LET b == push(append(a, Item(start, 0,
                                        [tag |-> "List", is_tight |-> TRUE,
                                         ch |-> ch, index |-> index])))
                           IN  [b EXCEPT !.last_line_blank = FALSE]

\* Continue the open list when its marker character is ch; otherwise start
\* a new (tight) list.
continue_list(fp, start, ch, index) ==
    IF fp.panic THEN fp
    ELSE LET up == peek_up(fp)
             same == /\ up # <<>>
                     /\ Tag(fp.nodes, up[1]) = "List"
                     /\ Nd(fp.nodes, up[1]).body.ch = ch
         IN  IF same
             THEN IF fp.last_line_blank
                  THEN [fp EXCEPT !.nodes[up[1] + 1].body.is_tight = FALSE,
                                  !.last_line_blank = FALSE]
                  ELSE fp
             ELSE LET a == IF up # <<>> THEN finish_list(fp, start) ELSE fp
                  IN  IF a.panic THEN a
                      ELSE LET b == push(append(a, Item(start, 0,
                                        [tag |-> "List", is_tight |-> TRUE,
                                         ch |-> ch, index |-> index])))
                           IN  [b EXCEPT !.last_line_blank = FALSE]

\* scan_containers: [ls, n, panic], n the number of spine containers whose
\* continuation the line presents.
RECURSIVE scan_containers_from(_, _, _, _)
scan_containers_from(t, fp, ls, k) ==
    IF k > Len(fp.spine) THEN [ls |-> ls, n |-> k - 1, panic |-> FALSE]
    ELSE LET body == Nd(fp.nodes, fp.spine[k]).body
         IN  IF body.tag = "BlockQuote"
             THEN LET r == scan_blockquote_marker(t, ls)
                  IN  IF r[2] THEN scan_containers_from(t, fp, r[1], k + 1)
                      ELSE [ls |-> r[1], n |-> k - 1, panic |-> FALSE]
             ELSE IF body.tag = "ListItem"
             THEN LET r == scan_space(t, ls, body.indent)
                  IN  IF r[2] \/ is_at_eol(t, r[1])
                      THEN scan_containers_from(t, fp, r[1], k + 1)
                      ELSE [ls |-> r[1], n |-> k - 1, panic |-> FALSE]
             ELSE IF body.tag \in {"List", "Paragraph", "IndentCodeBlock",
                                   "FencedCodeBlock", "HtmlBlock"}
             THEN scan_containers_from(t, fp, ls, k + 1)
             ELSE [ls |-> ls, n |-> k - 1, panic |-> TRUE]

scan_containers(t, fp, ls) == scan_containers_from(t, fp, ls, 1)

(***************************************************************************)
(* The line scanner.                                                       *)
(***************************************************************************)
\* The start of the run of non-newline whitespace that ends at i.
RECURSIVE trim_back(_, _)
trim_back(t, i) ==
    IF i > 0 /\ is_ascii_whitespace_no_nl(B(t, i - 1)) THEN trim_back(t, i - 1) ELSE i

\* A variant that appends one node for the whole run.
append_inline_run_one_node(tr, ix, i, count, can_open, can_close) ==
    append(tr, Item(ix, ix + count,
                    [tag |-> "Inline", count |-> count,
                     can_open |-> can_open, can_close |-> can_close]))

\* Appends the count single-byte Inline markers of one delimiter run.
RECURSIVE append_inline_run(_, _, _, _, _, _)
append_inline_run(tr, ix, i, count, can_open, can_close) ==
    IF i >= count THEN tr
    ELSE append_inline_run(
             append(tr, Item(ix + i, ix + i + 1,
                             [tag |-> "Inline", count |-> count - i,
                              can_open |-> can_open, can_close |-> can_close])),
             ix, i + 1, count, can_open, can_close)

\* The loop of parse_line: [tr, ix, brk], brk the break item of the line
\* (None at the end of input); the break is returned, not appended.
RECURSIVE parse_line_loop(_, _, _, _, _)
parse_line_loop(t, tr, start, ix, begin_text) ==
    IF ix >= Len(t)
    THEN [tr |-> append_text(tr, begin_text, ix), ix |-> ix, brk |-> <<>>]
    ELSE LET c == B(t, ix)
         IN
         IF c \in {"\n", "\r"}
         THEN LET eol == ix + scan_eol(t, ix)[1]
              IN  IF ix >= begin_text + 1 /\ B(t, ix - 1) = "\\"
                  THEN [tr |-> append_text(tr, begin_text, ix - 1), ix |-> eol,
                        brk |-> <<Item(ix - 1, eol, [tag |-> "HardBreak"])>>]
                  ELSE IF /\ ix >= begin_text + 2
                          /\ is_ascii_whitespace_no_nl(B(t, ix - 1))
                          /\ is_ascii_whitespace_no_nl(B(t, ix - 2))
                  THEN LET i == trim_back(t, ix - 2)
                       IN  [tr |-> append_text(tr, begin_text, i), ix |-> eol,
                            brk |-> <<Item(i, eol, [tag |-> "HardBreak"])>>]
                  ELSE [tr |-> append_text(tr, begin_text, ix), ix |-> eol,
                        brk |-> <<Item(ix, eol, [tag |-> "SoftBreak"])>>]
         ELSE IF c = "\\" /\ ix + 1 < Len(t) /\ is_ascii_punctuation(B(t, ix + 1))
         THEN parse_line_loop(t,
                  append(append_text(tr, begin_text, ix),
                         Item(ix, ix + 1, [tag |-> "Backslash"])),
                  start, ix + 2, ix + 1)
         ELSE IF c \in {"*", "_"}
         THEN LET count == scan_ch_repeat(t, ix, c)
                  can_open == ix + count < Len(t) /\ ~is_ascii_whitespace(B(t, ix + count))
                  can_close == ix > start /\ ~is_ascii_whitespace(B(t, ix - 1))
              IN  parse_line_loop(t,
                      append_inline_run(append_text(tr, begin_text, ix), ix, 0,
                                        count, can_open, can_close),
                      start, ix + count, ix + count)
         ELSE IF c = BT
         THEN LET count == scan_ch_repeat(t, ix, BT)
              IN  parse_line_loop(t,
                      append(append_text(tr, begin_text, ix),
                             Item(ix, ix + count, [tag |-> "MaybeCode", count |-> count])),
                      start, ix + count, ix + count)
         ELSE IF c \in {"<", "[", "]"}
         THEN parse_line_loop(t,
                  append(append_text(tr, begin_text, ix),
                         Item(ix, ix + 1,
                              [tag |-> IF c = "<" THEN "MaybeHtml"
                                       ELSE IF c = "[" THEN "MaybeLinkOpen"
                                       ELSE "MaybeLinkClose"])),
                  start, ix + 1, ix + 1)
         ELSE parse_line_loop(t, tr, start, ix + 1, begin_text)

parse_line(t, tr, ix) == parse_line_loop(t, tr, ix, ix, ix)

(***************************************************************************)
(* Leaf blocks of the first pass.                                          *)
(***************************************************************************)
LowerSeq == <<"a", "b", "c", "d", "e", "f", "g", "h", "i", "j", "k", "l", "m",
              "n", "o", "p", "q", "r", "s", "t", "u", "v", "w", "x", "y", "z">>
UpperSeq == <<"A", "B", "C", "D", "E", "F", "G", "H", "I", "J", "K", "L", "M",
              "N", "O", "P", "Q", "R", "S", "T", "U", "V", "W", "X", "Y", "Z">>

\* c - 32 for a lower-case letter c.
ToUpper(c) == IF c \in LowerAlpha
              THEN UpperSeq[CHOOSE k \in 1..26 : LowerSeq[k] = c] ELSE c

\* Some(end tag) when the slice starts an HTML block of type 1 to 5.
\* Whether the slice at i starts with beg, letters in either case, followed
\* by a byte that is whitespace as a char, ">" or the end of input.
get_html_end_tag(t, i) ==
    LET len == Len(t) - i
        begins(beg) ==
            /\ len >= Len(beg)
            /\ len > 0 /\ B(t, i) = "<"
            /\ \A k \in 2..Len(beg) :
                   B(t, i + k - 1) = beg[k] \/ B(t, i + k - 1) = ToUpper(beg[k])
            /\ \/ len = Len(beg)
               \/ B(t, i + Len(beg)) \in CharWhitespace
               \/ B(t, i + Len(beg)) = ">"
        script == <<"<", "s", "c", "r", "i", "p", "t">>
        pre == <<"<", "p", "r", "e">>
        style == <<"<", "s", "t", "y", "l", "e">>
    IN  IF begins(script) THEN << <<"<", "/", "s", "c", "r", "i", "p", "t", ">">> >>
        ELSE IF begins(pre) THEN << <<"<", "/", "p", "r", "e", ">">> >>
        ELSE IF begins(style) THEN << <<"<", "/", "s", "t", "y", "l", "e", ">">> >>
        ELSE IF starts_with(t, i, <<"<", "!", "-", "-">>) THEN << <<"-", "-", ">">> >>
        ELSE IF starts_with(t, i, <<"<", "?">>) THEN << <<"?", ">">> >>
        ELSE IF starts_with(t, i, <<"<", "!", "[", "C", "D", "A", "T", "A", "[">>)
             THEN << <<"]", "]", ">">> >>
        ELSE IF len > 2 /\ starts_with(t, i, <<"<", "!">>) /\ B(t, i + 2) \in UpperAlpha
             THEN << <<">">> >>
        ELSE <<>>

scan_paragraph_interrupt(t, i) ==
    \/ scan_eol(t, i)[2]
    \/ scan_hrule(t, i) > 0
    \/ scan_atx_heading(t, i) # <<>>
    \/ scan_code_fence(t, i)[1] > 0
    \/ get_html_end_tag(t, i) # <<>>
    \/ scan_blockquote_start(t, i) > 0
    \/ scan_listitem(t, i) > 0
    \/ is_html_tag(scan_html_block_tag(t, i)[2])

\* The loop of parse_paragraph, at the start of a content line: [fp, ix].
RECURSIVE parse_paragraph_loop(_, _, _, _)
\* A variant of the step after a line of the paragraph that looks for a
\* setext underline whatever the number of containers the line matched.
paragraph_next_line_any_containers(t, node, pl, sc, sp) ==
    IF sc.panic THEN [fp |-> [pl.tr EXCEPT !.panic = TRUE], ix |-> pl.ix]
    ELSE
    LET ix_new == pl.ix + ls_bytes_scanned(sp[1])
        setext == IF ~sp[2] THEN scan_setext_heading(t, ix_new) ELSE <<>>
        a == [pl.tr EXCEPT !.nodes[node + 1].body =
                 [tag |-> "Header", level |-> setext[1][2]]]
        b == IF /\ pl.brk # <<>>
                /\ pl.brk[1].body.tag = "HardBreak"
                /\ B(t, pl.brk[1].start) = "\\"
             THEN append_text(a, pl.brk[1].start, pl.brk[1].start + 1)
             ELSE a
    IN  IF setext # <<>> THEN [fp |-> b, ix |-> ix_new + setext[1][1]]
        ELSE IF ~sp[2] /\ scan_paragraph_interrupt(t, ix_new)
        THEN [fp |-> pl.tr, ix |-> pl.ix]
        ELSE parse_paragraph_loop(t,
                 IF pl.brk # <<>> THEN append(pl.tr, pl.brk[1]) ELSE pl.tr,
                 node, pl.ix + ls_bytes_scanned(scan_all_space(t, sp[1])))

\* The step after a line pl of the paragraph, sc the containers scanned at
\* the next line and sp its leading spaces: that line is a setext underline
\* (the paragraph becomes a header), it interrupts the paragraph, or it
\* continues it.
paragraph_next_line(t, node, pl, sc, sp) ==
    IF sc.panic THEN [fp |-> [pl.tr EXCEPT !.panic = TRUE], ix |-> pl.ix]
    ELSE
    LET ix_new == pl.ix + ls_bytes_scanned(sp[1])
        setext == IF ~sp[2] /\ sc.n = Len(pl.tr.spine)
                  THEN scan_setext_heading(t, ix_new) ELSE <<>>
        a == [pl.tr EXCEPT !.nodes[node + 1].body =
                 [tag |-> "Header", level |-> setext[1][2]]]
        b == IF /\ pl.brk # <<>>
                /\ pl.brk[1].body.tag = "HardBreak"
                /\ B(t, pl.brk[1].start) = "\\"
             THEN append_text(a, pl.brk[1].start, pl.brk[1].start + 1)
             ELSE a
    IN  IF setext # <<>> THEN [fp |-> b, ix |-> ix_new + setext[1][1]]
        ELSE IF ~sp[2] /\ scan_paragraph_interrupt(t, ix_new)
        THEN [fp |-> pl.tr, ix |-> pl.ix]
        ELSE parse_paragraph_loop(t,
                 IF pl.brk # <<>> THEN append(pl.tr, pl.brk[1]) ELSE pl.tr,
                 node, pl.ix + ls_bytes_scanned(scan_all_space(t, sp[1])))

\* The iteration of the loop once parse_line returned pl.
paragraph_line(t, node, pl) ==
    LET sc == scan_containers(t, pl.tr, LineStart_new(pl.ix))
    IN  paragraph_next_line(t, node, pl, sc, scan_space(t, sc.ls, 4))

parse_paragraph_loop(t, fp, node, ix) == paragraph_line(t, node, parse_line(t, fp, ix))

\* The end of parse_paragraph, on the result r of its loop.
parse_paragraph_end(r) ==
    IF r.fp.panic THEN r
    ELSE LET b == tree_pop(r.fp)
         IN  [fp |-> [b EXCEPT !.nodes[b.cur + 1].end = r.ix], ix |-> r.ix]

\* Returns the offset of the line start after the paragraph.
parse_paragraph(t, fp, start_ix) ==
    LET a == append(fp, Item(start_ix, 0, [tag |-> "Paragraph"]))
    IN  parse_paragraph_end(parse_paragraph_loop(t, push(a), a.cur, start_ix))

SynthSpaces(n) == [tag |-> "SynthesizeText", lit |-> [k \in 1..n |-> " "]]

\* The line text[start, end) of a code block: preserved indent, then the
\* text, a CRLF ending split around the CR.
append_code_text(t, fp, remaining_space, start, end) ==
    LET a == IF remaining_space > 0
             THEN append(fp, Item(start, start, SynthSpaces(remaining_space)))
             ELSE fp
    IN  IF end < 2 THEN [a EXCEPT !.panic = TRUE]
        ELSE IF B(t, end - 2) = "\r"
        THEN append_text(append_text(a, start, end - 2), end - 1, end)
        ELSE append_text(a, start, end)

\* Appends a line of HTML to the tree.
append_html_line(t, fp, remaining_space, start, end) ==
    LET a == IF remaining_space > 0
             THEN append(fp, Item(start, start, SynthSpaces(remaining_space)))
             ELSE fp
    IN  IF end < 2 THEN [a EXCEPT !.panic = TRUE]
        ELSE IF B(t, end - 2) = "\r"
        THEN append(append(a, Item(start, end - 2, [tag |-> "Html"])),
                    Item(end - 1, end, [tag |-> "Html"]))
        ELSE append(a, Item(start, end, [tag |-> "Html"]))

\* The loop of parse_html_block_type_1_to_5: [fp, ix, end_ix].
RECURSIVE html_1_to_5_loop(_, _, _, _, _)
html_1_to_5_loop(t, fp, ix0, html_end_tag, rem_space) ==
    LET ix == ix0 + scan_nextline(t, ix0)
        a == append_html_line(t, fp, rem_space, ix0, ix)
        sc == scan_containers(t, a, LineStart_new(ix))
        next_line_ix == ix + ls_bytes_scanned(sc.ls)
    IN  IF a.panic \/ sc.panic
        THEN [fp |-> [a EXCEPT !.panic = TRUE], ix |-> ix, end_ix |-> ix]
        ELSE IF sc.n < Len(a.spine) THEN [fp |-> a, ix |-> ix, end_ix |-> ix]
        ELSE IF contains_str(t, ix0, ix, html_end_tag)
        THEN [fp |-> a, ix |-> ix, end_ix |-> ix]
        ELSE IF next_line_ix = Len(t)
        THEN [fp |-> a, ix |-> ix, end_ix |-> next_line_ix]
        ELSE html_1_to_5_loop(t, a, next_line_ix, html_end_tag,
                              ls_remaining_space(sc.ls))

\* The end of both HTML block parsers, on the result r of the loop.
html_block_end(r) == [fp |-> FirstPass_pop(r.fp, r.end_ix), ix |-> r.ix]

parse_html_block_type_1_to_5(t, fp, start_ix, html_end_tag, rem_space) ==
    html_block_end(
        html_1_to_5_loop(t,
            push(append(fp, Item(start_ix, 0,
                [tag |-> "HtmlBlock", end_tag |-> <<html_end_tag>>]))),
            start_ix, html_end_tag, rem_space))

\* The loop of parse_html_block_type_6_or_7: [fp, ix, end_ix].
RECURSIVE html_6_or_7_loop(_, _, _, _)
html_6_or_7_loop(t, fp, ix0, rem_space) ==
    LET ix == ix0 + scan_nextline(t, ix0)
        a == append_html_line(t, fp, rem_space, ix0, ix)
        sc == scan_containers(t, a, LineStart_new(ix))
        next_line_ix == ix + ls_bytes_scanned(sc.ls)
    IN  IF a.panic \/ sc.panic
        THEN [fp |-> [a EXCEPT !.panic = TRUE], ix |-> ix, end_ix |-> ix]
        ELSE IF sc.n < Len(a.spine) \/ is_at_eol(t, sc.ls)
        THEN [fp |-> a, ix |-> ix, end_ix |-> ix]
        ELSE IF next_line_ix = Len(t) \/ scan_blank_line(t, next_line_ix) # <<>>
        THEN [fp |-> a, ix |-> ix, end_ix |-> next_line_ix]
        ELSE html_6_or_7_loop(t, a, next_line_ix, ls_remaining_space(sc.ls))

parse_html_block_type_6_or_7(t, fp, start_ix, rem_space) ==
    html_block_end(
        html_6_or_7_loop(t,
            push(append(fp, Item(start_ix, 0,
                [tag |-> "HtmlBlock", end_tag |-> <<>>]))),
            start_ix, rem_space))

\* The loop of parse_indented_code_block:
\* [fp, ix, end_ix, last_nonblank_child].
RECURSIVE indented_code_loop(_, _, _, _, _, _, _)
indented_code_loop(t, fp, ix0, rem_space, line_blank, last_nonblank0, end_ix0) ==
    LET ix == ix0 + scan_nextline(t, ix0)
        a == append_code_text(t, fp, rem_space, ix0, ix)
        last_nonblank_child == IF ~line_blank THEN a.cur ELSE last_nonblank0
        end_ix == IF ~line_blank THEN ix ELSE end_ix0
        sc == scan_containers(t, a, LineStart_new(ix))
        sp == scan_space(t, sc.ls, 4)
        next_line_ix == ix + ls_bytes_scanned(sp[1])
        out == [fp |-> a, ix |-> ix, end_ix |-> end_ix,
                last_nonblank_child |-> last_nonblank_child]
    IN  IF a.panic \/ sc.panic THEN [out EXCEPT !.fp.panic = TRUE]
        ELSE IF sc.n < Len(a.spine) \/ ~(sp[2] \/ is_at_eol(t, sp[1])) THEN out
        ELSE IF next_line_ix = Len(t) THEN out
        ELSE indented_code_loop(t, a, next_line_ix, ls_remaining_space(sp[1]),
                                scan_blank_line(t, next_line_ix) # <<>>,
                                last_nonblank_child, end_ix)

\* The end that would keep trailing blank lines: the chain is not cut and
\* the block ends at the offset the loop reached.
indented_code_end_untrimmed(r) ==
    IF r.fp.panic THEN [fp |-> r.fp, ix |-> r.ix]
    ELSE [fp |-> FirstPass_pop(r.fp, r.ix), ix |-> r.ix]

\* The end of parse_indented_code_block, on the result r of its loop.
indented_code_end(r) ==
    IF r.fp.panic THEN [fp |-> r.fp, ix |-> r.ix]
    ELSE IF r.last_nonblank_child = NIL
    THEN [fp |-> [r.fp EXCEPT !.panic = TRUE], ix |-> r.ix]
    ELSE \* Trim trailing blank lines.
         [fp |-> FirstPass_pop(
                     [r.fp EXCEPT !.nodes[r.last_nonblank_child + 1].next = NIL],
                     r.end_ix),
          ix |-> r.ix]

parse_indented_code_block(t, fp, start_ix, rem_space) ==
    indented_code_end(
        indented_code_loop(t,
            push(append(fp, Item(start_ix, 0, [tag |-> "IndentCodeBlock"]))),
            start_ix, rem_space, FALSE, NIL, 0))

\* The end of the info string: trailing whitespace trimmed.
RECURSIVE trim_info_end(_, _, _)
trim_info_end(t, info_start, info_end) ==
    IF info_end > info_start /\ is_ascii_whitespace(B(t, info_end - 1))
    THEN trim_info_end(t, info_start, info_end - 1) ELSE info_end

\* The loop of parse_fenced_code_block, at the start of a line: [fp, ix].
\* The source loop has no other exit than a container mismatch or a closing
\* fence; an iteration that leaves ix where it was repeats for ever (hang),
\* appending what it appends each time round (nothing, or after CR LF the
\* one-byte Text of the line ending). The state kept is the one after the
\* first such iteration.
RECURSIVE fenced_code_loop(_, _, _, _, _, _)
\* The iteration that would let a fenced code block continue lazily: the
\* line is read as content or as a closing fence whatever the number of
\* containers it matches.
fenced_code_line_lazy(t, fp, ix, indent, fence_ch, n_fence_char, sc, line_start, close_line_start) ==
    LET close_ix == ix + ls_bytes_scanned(close_line_start[1])
        closing == IF ~close_line_start[2]
                   THEN scan_closing_code_fence(t, close_ix, fence_ch, n_fence_char)
                   ELSE <<>>
        ix1 == ix + ls_bytes_scanned(line_start)
        next_ix == ix1 + scan_nextline(t, ix1)
        a == append_code_text(t, fp, ls_remaining_space(line_start), ix1, next_ix)
    IN  IF sc.panic THEN [fp |-> [fp EXCEPT !.panic = TRUE], ix |-> ix]
        ELSE IF closing # <<>> THEN [fp |-> fp, ix |-> close_ix + closing[1]]
        ELSE IF a.panic THEN [fp |-> a, ix |-> ix]
        ELSE IF next_ix = ix THEN [fp |-> [a EXCEPT !.hang = TRUE], ix |-> ix]
        ELSE fenced_code_loop(t, a, next_ix, indent, fence_ch, n_fence_char)

\* The iteration of the loop with sc the containers scanned at the line,
\* line_start the cursor after the indent of the fence and close_line_start
\* the scan of up to 4 spaces before a closing fence.
fenced_code_line(t, fp, ix, indent, fence_ch, n_fence_char, sc, line_start, close_line_start) ==
    LET close_ix == ix + ls_bytes_scanned(close_line_start[1])
        closing == IF ~close_line_start[2]
                   THEN scan_closing_code_fence(t, close_ix, fence_ch, n_fence_char)
                   ELSE <<>>
        ix1 == ix + ls_bytes_scanned(line_start)
        next_ix == ix1 + scan_nextline(t, ix1)
        a == append_code_text(t, fp, ls_remaining_space(line_start), ix1, next_ix)
    IN  IF sc.panic THEN [fp |-> [fp EXCEPT !.panic = TRUE], ix |-> ix]
        ELSE IF sc.n < Len(fp.spine) THEN [fp |-> fp, ix |-> ix]
        ELSE IF closing # <<>> THEN [fp |-> fp, ix |-> close_ix + closing[1]]
        ELSE IF a.panic THEN [fp |-> a, ix |-> ix]
        ELSE IF next_ix = ix THEN [fp |-> [a EXCEPT !.hang = TRUE], ix |-> ix]
        ELSE fenced_code_loop(t, a, next_ix, indent, fence_ch, n_fence_char)

fenced_code_loop(t, fp, ix, indent, fence_ch, n_fence_char) ==
    LET sc == scan_containers(t, fp, LineStart_new(ix))
        line_start == scan_space(t, sc.ls, indent)[1]
    IN  fenced_code_line(t, fp, ix, indent, fence_ch, n_fence_char, sc, line_start,
                         scan_space(t, line_start, 4))

\* The end of parse_fenced_code_block, on the result r of its loop.
fenced_code_end(r) ==
    IF r.fp.panic \/ r.fp.hang THEN r
    ELSE [fp |-> FirstPass_pop(r.fp, r.ix), ix |-> r.ix]

parse_fenced_code_block(t, fp, start_ix, indent, fence_ch, n_fence_char) ==
    LET info_start == start_ix + n_fence_char
                      + scan_whitespace_no_nl(t, start_ix + n_fence_char)
        info_end == trim_info_end(t, info_start, info_start + scan_nextline(t, info_start))
    IN  fenced_code_end(
            fenced_code_loop(t,
                push(append(fp, Item(start_ix, 0,
                    [tag |-> "FencedCodeBlock",
                     info |-> SubSeq(t, info_start + 1, info_end)]))),
                start_ix + scan_nextline(t, start_ix),
                indent, fence_ch, n_fence_char))

\* Parse a thematic break.
parse_hrule(fp, hrule_size, ix) ==
    [fp |-> append(fp, Item(ix, ix + hrule_size, [tag |-> "Rule"])),
     ix |-> ix + hrule_size]

RECURSIVE trim_spaces_back(_, _, _)
trim_spaces_back(t, base, limit) ==
    IF limit > 0 /\ B(t, base + limit - 1) = " "
    THEN trim_spaces_back(t, base, limit - 1) ELSE limit

RECURSIVE trim_hashes_back(_, _, _)
trim_hashes_back(t, base, closer) ==
    IF closer > 0 /\ B(t, base + closer - 1) = "#"
    THEN trim_hashes_back(t, base, closer - 1) ELSE closer

\* The length of the header text once the line ending, trailing spaces and
\* a closing run of hash signs are removed.
atx_limit(t, header_start, ix) ==
    LET l0 == ix - header_start
        l1 == IF l0 > 0 /\ B(t, header_start + l0 - 1) = "\n" THEN l0 - 1 ELSE l0
        l2 == IF l1 > 0 /\ B(t, header_start + l1 - 1) = "\r" THEN l1 - 1 ELSE l1
        limit == trim_spaces_back(t, header_start, l2)
        closer == trim_hashes_back(t, header_start, limit)
    IN  IF closer > 0 /\ B(t, header_start + closer - 1) = " "
        THEN trim_spaces_back(t, header_start, closer)
        ELSE IF closer = 0 THEN 0
        ELSE limit

\* Parse an ATX heading; returns the start of the next line.
parse_atx_heading(t, fp, ix0, atx_level, atx_size) ==
    LET a == append(fp, Item(ix0, 0, [tag |-> "Header", level |-> atx_level]))
        ix1 == ix0 + atx_size
    IN  IF ix1 >= Len(t) THEN [fp |-> [a EXCEPT !.panic = TRUE], ix |-> ix1]
        ELSE IF B(t, ix1) \in {"\n", "\r"}
        THEN [fp |-> a, ix |-> ix1 + scan_eol(t, ix1)[1]]
        ELSE LET header_start == ix1 + scan_whitespace_no_nl(t, ix1)
                 header_node_idx == a.cur
                 pl == parse_line(t, push(a), header_start)
                 b == [pl.tr EXCEPT !.nodes[header_node_idx + 1].end = pl.ix]
                 limit == atx_limit(t, header_start, pl.ix)
                 c == IF b.cur # NIL
                      THEN [b EXCEPT !.nodes[b.cur + 1].end = limit + header_start]
                      ELSE b
             IN  [fp |-> tree_pop(c), ix |-> pl.ix]

\* The loop of parse_block that opens new containers: [fp, ls].
RECURSIVE open_containers(_, _, _, _)
\* Push the container item on the tree a that finish_list or continue_list
\* returned, and go on after the marker.
open_container_pushed(t, a, start_ix, ls1, item) ==
    IF a.panic THEN [fp |-> a, ls |-> ls1]
    ELSE open_containers(t, push(append(a, item)), start_ix, ls1)

\* The list marker branch of the loop, lm the scan of a list marker.
open_container_item(t, fp, start_ix, ls, container_start, lm) ==
    IF lm[2] # <<>>
    THEN open_container_pushed(t,
             continue_list(fp, container_start, lm[2][1][1],
                 IF lm[2][1][1] \in {".", ")"} THEN <<lm[2][1][2]>> ELSE <<>>),
             start_ix, lm[1],
             Item(container_start, 0, [tag |-> "ListItem", indent |-> lm[2][1][3]]))
    ELSE [fp |-> fp, ls |-> ls]

open_containers(t, fp, start_ix, ls) ==
    LET container_start == start_ix + ls_bytes_scanned(ls)
        bq == scan_blockquote_marker(t, ls)
    IN  IF fp.panic THEN [fp |-> fp, ls |-> ls]
        ELSE IF bq[2]
        THEN open_container_pushed(t, finish_list(fp, start_ix), start_ix, bq[1],
                                   Item(container_start, 0, [tag |-> "BlockQuote"]))
        ELSE open_container_item(t, fp, start_ix, ls, container_start,
                                 scan_list_marker(t, ls))

\* The leaf block of the line, after the containers: [fp, ix].
parse_leaf(t, fp0, start_ix, ls0, ix) ==
    LET fp == finish_list(fp0, start_ix)
        rem_space == ls_remaining_space(ls0)
        su == scan_space_upto(t, ls0, 4)
        line_start == su[1]
        indent == su[2]
        nonspace_ix == start_ix + ls_bytes_scanned(line_start)
        html_end_tag == get_html_end_tag(t, nonspace_ix)
        n == scan_hrule(t, nonspace_ix)
        atx == scan_atx_heading(t, nonspace_ix)
        fence == scan_code_fence(t, nonspace_ix)
    IN  IF fp.panic THEN [fp |-> fp, ix |-> ix]
        ELSE IF indent = 4
        THEN parse_indented_code_block(t, fp, nonspace_ix, ls_remaining_space(line_start))
        ELSE IF html_end_tag # <<>>
        THEN parse_html_block_type_1_to_5(t, fp, ix, html_end_tag[1], rem_space)
        ELSE IF is_html_tag(scan_html_block_tag(t, nonspace_ix)[2])
        THEN parse_html_block_type_6_or_7(t, fp, ix, rem_space)
        ELSE IF scan_html_type_7(t, nonspace_ix) # <<>>
        THEN parse_html_block_type_6_or_7(t, fp, ix, rem_space)
        ELSE IF n > 0 THEN parse_hrule(fp, n, nonspace_ix)
        ELSE IF atx # <<>>
        THEN parse_atx_heading(t, fp, nonspace_ix, atx[1][2], atx[1][1])
        ELSE IF fence[1] > 0
        THEN parse_fenced_code_block(t, fp, nonspace_ix, indent, fence[2], fence[1])
        ELSE parse_paragraph(t, fp, nonspace_ix)

\* The rest of parse_block, on the result oc of open_containers.
parse_block_opened(t, start_ix, oc) ==
    LET ix == start_ix + ls_bytes_scanned(oc.ls)
        blank == scan_blank_line(t, ix)
    IN  IF oc.fp.panic THEN [fp |-> oc.fp, ix |-> ix]
        ELSE IF blank # <<>>
        THEN [fp |-> [oc.fp EXCEPT !.last_line_blank = TRUE], ix |-> ix + blank[1]]
        ELSE parse_leaf(t, oc.fp, start_ix, oc.ls, ix)

\* Returns the offset after the block: [fp, ix].
parse_block(t, fp0, start_ix) ==
    LET sc == scan_containers(t, fp0, LineStart_new(start_ix))
    IN  IF sc.panic THEN [fp |-> [fp0 EXCEPT !.panic = TRUE], ix |-> start_ix]
        ELSE parse_block_opened(t, start_ix,
                 open_containers(t, pop_times(fp0, Len(fp0.spine) - sc.n, start_ix),
                                 start_ix, sc.ls))

FirstPass_new ==
    [nodes |-> <<>>, cur |-> NIL, spine |-> <<>>, last_line_blank |-> FALSE,
     panic |-> FALSE, hang |-> FALSE]

(***************************************************************************)
(* InlineScanner: an iterator over the bytes of an inline chain.  The      *)
(* scanner is the record [cur, ix]; a byte predicate is the record         *)
(* [set, neg] that holds of c iff (c \in set) # neg.                       *)
(***************************************************************************)
Holds(p, c) == (c \in p.set) # p.neg

Is(set) == [set |-> set, neg |-> FALSE]

IsNot(set) == [set |-> set, neg |-> TRUE]

WhitespaceBytes == {" ", "\t", "\n", "\r", "\f"}

InlineScanner_new(ns, cur) ==
    [cur |-> cur, ix |-> IF cur = NIL THEN NIL ELSE Nd(ns, cur).start]

sc_unget(sc) == [sc EXCEPT !.ix = @ - 1]

\* The loop of next that leaves the nodes whose end is reached.
RECURSIVE sc_skip(_, _)
sc_skip(ns, sc) ==
    IF sc.ix = Nd(ns, sc.cur).end
    THEN LET nx == Nd(ns, sc.cur).next
         IN  IF nx = NIL THEN [sc EXCEPT !.cur = NIL]
             ELSE sc_skip(ns, [cur |-> nx, ix |-> Nd(ns, nx).start])
    ELSE sc

\* The byte at the scanner s that sc_skip returned.
sc_next_at(t, s) ==
    IF s.cur = NIL THEN [sc |-> s, c |-> <<>>]
    ELSE [sc |-> [s EXCEPT !.ix = @ + 1], c |-> <<B(t, s.ix)>>]

\* next: [sc, c] with c an Option of byte.
sc_next(t, ns, sc) ==
    IF sc.cur = NIL THEN [sc |-> sc, c |-> <<>>]
    ELSE sc_next_at(t, sc_skip(ns, sc))

\* The character at the scanner s that sc_skip returned.  The slice
\* text[ix..] panics when ix is past the text or inside a character, and is
\* empty at the end of the text.
sc_next_char_at(t, s) ==
    IF s.cur = NIL THEN [sc |-> s, c |-> <<>>, panic |-> FALSE]
    ELSE IF ~(s.ix <= Len(t) /\ is_char_boundary(t, s.ix))
    THEN [sc |-> s, c |-> <<>>, panic |-> TRUE]
    ELSE IF s.ix = Len(t) THEN [sc |-> s, c |-> <<>>, panic |-> FALSE]
    ELSE [sc |-> [s EXCEPT !.ix = @ + len_utf8(B(t, s.ix))],
          c |-> <<char_at(t, s.ix, len_utf8(B(t, s.ix)))>>,
          panic |-> FALSE]

\* next_char: [sc, c, panic] with c an Option of char, a char of several
\* bytes being the string of its byte names.
sc_next_char(t, ns, sc) ==
    IF sc.cur = NIL THEN [sc |-> sc, c |-> <<>>, panic |-> FALSE]
    ELSE sc_next_char_at(t, sc_skip(ns, sc))

\* The bytes of the character that next_char returns at sc.
sc_char_bytes(t, ns, sc) ==
    char_bytes(t, sc_skip(ns, sc).ix, len_utf8(B(t, sc_skip(ns, sc).ix)))

\* scan_if on the result r of next: [sc, ok].
sc_scan_if_next(r, p) ==
    IF r.c = <<>> THEN [sc |-> r.sc, ok |-> FALSE]
    ELSE IF Holds(p, r.c[1]) THEN [sc |-> r.sc, ok |-> TRUE]
    ELSE [sc |-> sc_unget(r.sc), ok |-> FALSE]

sc_scan_if(t, ns, sc, p) == sc_scan_if_next(sc_next(t, ns, sc), p)

sc_scan_ch(t, ns, sc, c) == sc_scan_if(t, ns, sc, Is({c}))

\* [sc, n]
RECURSIVE sc_scan_while_from(_, _, _, _, _)
\* The step of scan_while on the result r of next.
sc_scan_while_next(t, ns, r, p, n) ==
    IF r.c = <<>> THEN [sc |-> r.sc, n |-> n]
    ELSE IF Holds(p, r.c[1]) THEN sc_scan_while_from(t, ns, r.sc, p, n + 1)
    ELSE [sc |-> sc_unget(r.sc), n |-> n]

sc_scan_while_from(t, ns, sc, p, n) ==
    sc_scan_while_next(t, ns, sc_next(t, ns, sc), p, n)

sc_scan_while(t, ns, sc, p) == sc_scan_while_from(t, ns, sc, p, 0)

sc_scan_upto(t, ns, sc, c) == sc_scan_while(t, ns, sc, IsNot({c}))

\* [sc, ok]; consumes the prefix that matched.
RECURSIVE sc_scan_str(_, _, _, _)
sc_scan_str(t, ns, sc, str) ==
    IF str = <<>> THEN [sc |-> sc, ok |-> TRUE]
    ELSE LET r == sc_scan_ch(t, ns, sc, Head(str))
         IN  IF r.ok THEN sc_scan_str(t, ns, r.sc, Tail(str)) ELSE r

\* <<node, ix>>
to_node_and_ix(ns, sc) ==
    IF sc.cur # NIL /\ Nd(ns, sc.cur).end = sc.ix
    THEN <<Nd(ns, sc.cur).next, sc.ix>>
    ELSE <<sc.cur, sc.ix>>

AttrNameStart == LowerAlpha \cup UpperAlpha \cup {"_", ":"}

AttrNameRest == LowerAlpha \cup UpperAlpha \cup Digits \cup {"_", ".", ":", "-"}

scan_inline_attribute_name(t, ns, sc) ==
    LET r == sc_scan_if(t, ns, sc, Is(AttrNameStart))
    IN  IF ~r.ok THEN r
        ELSE [sc |-> sc_scan_while(t, ns, r.sc, Is(AttrNameRest)).sc, ok |-> TRUE]

scan_inline_attribute_value(t, ns, sc) ==
    LET r == sc_next(t, ns, sc)
    IN  IF r.c = <<>> THEN [sc |-> r.sc, ok |-> FALSE]
        ELSE IF r.c[1] \in WhitespaceBytes \cup {"=", "<", ">", BT}
        THEN [sc |-> sc_unget(r.sc), ok |-> FALSE]
        ELSE IF r.c[1] = "'"
        THEN sc_scan_ch(t, ns, sc_scan_while(t, ns, r.sc, IsNot({"'"})).sc, "'")
        ELSE IF r.c[1] = "\""
        THEN sc_scan_ch(t, ns, sc_scan_while(t, ns, r.sc, IsNot({"\""})).sc, "\"")
        ELSE [sc |-> sc_scan_while(t, ns, r.sc,
                         IsNot(WhitespaceBytes \cup {"=", "<", ">", BT, "'", "\""})).sc,
              ok |-> TRUE]

scan_inline_attribute(t, ns, sc) ==
    LET nm == scan_inline_attribute_name(t, ns, sc)
        ws == sc_scan_while(t, ns, nm.sc, Is(WhitespaceBytes))
        eq == sc_scan_ch(t, ns, ws.sc, "=")
    IN  IF ~nm.ok THEN nm
        ELSE IF eq.ok
        THEN scan_inline_attribute_value(t, ns,
                 sc_scan_while(t, ns, eq.sc, Is(WhitespaceBytes)).sc)
        ELSE IF ws.n > 0 THEN [sc |-> sc_unget(eq.sc), ok |-> TRUE]
        ELSE [sc |-> eq.sc, ok |-> TRUE]

\* The loop of a comment after its opening: [sc, ok].
RECURSIVE comment_loop(_, _, _)
comment_loop(t, ns, sc) ==
    LET up == sc_scan_upto(t, ns, sc, "-")
        d1 == sc_scan_ch(t, ns, up.sc, "-")
        d2 == sc_scan_ch(t, ns, d1.sc, "-")
    IN  IF up.n > 0
        THEN IF d2.ok THEN sc_scan_ch(t, ns, d2.sc, ">")
             ELSE comment_loop(t, ns, d2.sc)
        ELSE [sc |-> up.sc, ok |-> FALSE]

RECURSIVE cdata_loop(_, _, _)
cdata_loop(t, ns, sc) ==
    LET up == sc_scan_upto(t, ns, sc, "]")
        b1 == sc_scan_ch(t, ns, up.sc, "]")
        bs == sc_scan_while(t, ns, b1.sc, Is({"]"}))
        gt == sc_scan_ch(t, ns, bs.sc, ">")
    IN  IF ~b1.ok THEN b1
        ELSE IF bs.n > 0 THEN (IF gt.ok THEN gt ELSE cdata_loop(t, ns, gt.sc))
        ELSE cdata_loop(t, ns, bs.sc)

\* Comment, declaration or CDATA section, after "<!".
scan_inline_html_comment(t, ns, sc) ==
    LET r == sc_next(t, ns, sc)
    IN  IF r.c = <<>> THEN [sc |-> r.sc, ok |-> FALSE]
        ELSE IF r.c[1] = "-"
        THEN LET d == sc_scan_ch(t, ns, r.sc, "-")
                 g == sc_scan_ch(t, ns, d.sc, ">")
                 e == sc_scan_ch(t, ns, g.sc, "-")
                 eg == sc_scan_ch(t, ns, e.sc, ">")
             IN  IF ~d.ok THEN d
                 ELSE IF g.ok THEN [sc |-> g.sc, ok |-> FALSE]
                 ELSE IF e.ok
                 THEN IF eg.ok THEN [sc |-> eg.sc, ok |-> FALSE]
                      ELSE comment_loop(t, ns, sc_unget(eg.sc))
                 ELSE comment_loop(t, ns, e.sc)
        ELSE IF r.c[1] = "["
        THEN LET cd == sc_scan_str(t, ns, r.sc, <<"C", "D", "A", "T", "A", "[">>)
             IN  IF ~cd.ok THEN cd ELSE cdata_loop(t, ns, cd.sc)
        ELSE LET up == sc_scan_while(t, ns, r.sc, Is(UpperAlpha))
                 ws == sc_scan_while(t, ns, up.sc, Is(WhitespaceBytes))
             IN  IF up.n = 0 THEN [sc |-> up.sc, ok |-> FALSE]
                 ELSE IF ws.n = 0 THEN [sc |-> ws.sc, ok |-> FALSE]
                 ELSE sc_scan_ch(t, ns, sc_scan_upto(t, ns, ws.sc, ">").sc, ">")

\* Processing directive, after "<?".
RECURSIVE scan_inline_html_processing(_, _, _)
scan_inline_html_processing(t, ns, sc) ==
    LET r == sc_next(t, ns, sc)
        g == sc_scan_ch(t, ns, r.sc, ">")
    IN  IF r.c = <<>> THEN [sc |-> r.sc, ok |-> FALSE]
        ELSE IF r.c[1] = "?"
        THEN (IF g.ok THEN g ELSE scan_inline_html_processing(t, ns, g.sc))
        ELSE scan_inline_html_processing(t, ns, r.sc)

LetterDigitDash == LowerAlpha \cup UpperAlpha \cup Digits \cup {"-"}

\* The attribute loop of an open tag.
RECURSIVE open_tag_loop(_, _, _)
open_tag_loop(t, ns, sc) ==
    LET ws == sc_scan_while(t, ns, sc, Is(WhitespaceBytes))
        r == sc_next(t, ns, ws.sc)
        at == scan_inline_attribute(t, ns, sc_unget(r.sc))
    IN  IF r.c = <<>> THEN [sc |-> r.sc, ok |-> FALSE]
        ELSE IF r.c[1] = "/" THEN sc_scan_ch(t, ns, r.sc, ">")
        ELSE IF r.c[1] = ">" THEN [sc |-> r.sc, ok |-> TRUE]
        ELSE IF ws.n = 0 THEN [sc |-> r.sc, ok |-> FALSE]
        ELSE IF ~at.ok THEN at
        ELSE open_tag_loop(t, ns, at.sc)

scan_inline_html(t, ns, sc) ==
    LET r == sc_next(t, ns, sc)
    IN  IF r.c = <<>> THEN [sc |-> r.sc, ok |-> FALSE]
        ELSE IF r.c[1] = "!" THEN scan_inline_html_comment(t, ns, r.sc)
        ELSE IF r.c[1] = "?" THEN scan_inline_html_processing(t, ns, r.sc)
        ELSE IF r.c[1] = "/"
        THEN LET a == sc_scan_if(t, ns, r.sc, Is(LowerAlpha \cup UpperAlpha))
             IN  IF ~a.ok THEN a
                 ELSE sc_scan_ch(t, ns,
                          sc_scan_while(t, ns,
                              sc_scan_while(t, ns, a.sc, Is(LetterDigitDash)).sc,
                              Is(WhitespaceBytes)).sc,
                          ">")
        ELSE IF is_ascii_alpha(r.c[1])
        THEN open_tag_loop(t, ns, sc_scan_while(t, ns, r.sc, Is(LetterDigitDash)).sc)
        ELSE [sc |-> r.sc, ok |-> FALSE]

(***************************************************************************)
(* Code spans.                                                             *)
(***************************************************************************)
SynthText(lit) == [tag |-> "SynthesizeText", lit |-> lit]

\* The loop of make_code_span over the nodes between open and close:
\* [nodes, last, panic].
RECURSIVE code_span_loop(_, _, _, _)
code_span_loop(t, ns, node, close) ==
    IF node = NIL THEN [nodes |-> ns, last |-> NIL, panic |-> TRUE]
    ELSE
    LET next == Nd(ns, node).next
        start == Nd(ns, node).start
        tg == Tag(ns, node)
        space == Len(ns)
        ns1 == IF tg = "SoftBreak"
               THEN [ns EXCEPT ![node + 1].body = SynthText(<<" ">>)]
               ELSE IF tg = "HardBreak"
               THEN IF B(t, start) = "\\"
                    THEN [Append(ns, [start |-> start + 1, end |-> Nd(ns, node).end,
                                      body |-> SynthText(<<" ">>),
                                      child |-> NIL, next |-> next])
                             EXCEPT ![node + 1].body = [tag |-> "Text"],
                                    ![node + 1].next = space,
                                    ![node + 1].end = start + 1]
                    ELSE [ns EXCEPT ![node + 1].body = SynthText(<<" ">>)]
               ELSE [ns EXCEPT ![node + 1].body = [tag |-> "Text"]]
    IN  IF next = close
        THEN [nodes |-> [ns1 EXCEPT ![node + 1].next = NIL], last |-> node,
              panic |-> FALSE]
        ELSE code_span_loop(t, ns1, next, close)

\* The second half of make_code_span, on the result lp of its loop: one
\* space is trimmed at both ends when both ends have one.
make_code_span_trim(t, open, first, lp) ==
    LET n1 == lp.nodes
        last == lp.last
        opening == IF Tag(n1, first) = "Text" THEN B(t, Nd(n1, first).start) = " "
                   ELSE Nd(n1, first).body.lit = <<" ">>
        closing == IF Tag(n1, last) = "Text" THEN B(t, Nd(n1, last).end - 1) = " "
                   ELSE Nd(n1, last).body.lit = <<" ">>
        n2 == IF Nd(n1, first).body = SynthText(<<" ">>)
                 \/ Nd(n1, first).end - Nd(n1, first).start = 1
              THEN [n1 EXCEPT ![open + 1].child = Nd(n1, first).next]
              ELSE [n1 EXCEPT ![first + 1].start = @ + 1]
        n3 == IF Nd(n2, last).body = SynthText(<<" ">>)
              THEN [n2 EXCEPT ![last + 1].body = SynthText(<<>>)]
              ELSE [n2 EXCEPT ![last + 1].end = @ - 1]
    IN  IF lp.panic THEN [nodes |-> n1, panic |-> TRUE]
        ELSE IF opening /\ closing THEN [nodes |-> n3, panic |-> FALSE]
        ELSE [nodes |-> n1, panic |-> FALSE]

\* Both open and close are matching MaybeCode items: [nodes, panic].
make_code_span(t, ns, open, close) ==
    make_code_span_trim(t, open, Nd(ns, open).next,
        code_span_loop(t,
            [ns EXCEPT ![open + 1].end = Nd(ns, close).end,
                       ![open + 1].body = [tag |-> "Code"],
                       ![open + 1].next = Nd(ns, close).next,
                       ![open + 1].child = Nd(ns, open).next],
            Nd(ns, open).next, close))

(***************************************************************************)
(* Inline links.  A scan returns [sc, v, panic] with v an Option of byte   *)
(* sequence; panic tells that next_char panicked.                          *)
(***************************************************************************)
\* The characters '\x00'..=' ' and '\x00'..='\x1f'.
CtlOrSpace == ControlBytes \cup {" "}

Ctl == ControlBytes

\* The bytes an escaped character c, of bytes bs, adds to a url or a title.
Unescaped(c, bs) == IF is_ascii_punctuation(c) THEN bs ELSE <<"\\">> \o bs

RECURSIVE scan_link_destination_plain_loop(_, _, _, _, _)
scan_link_destination_plain_loop(t, ns, sc, url, nest) ==
    LET r == sc_next_char(t, ns, sc)
        c == r.c[1]
        e == sc_next_char(t, ns, r.sc)
    IN  IF r.panic THEN [sc |-> r.sc, v |-> <<>>, panic |-> TRUE]
        ELSE IF r.c = <<>> THEN [sc |-> r.sc, v |-> <<>>, panic |-> FALSE]
        ELSE IF c = "("
        THEN scan_link_destination_plain_loop(t, ns, r.sc, Append(url, c), nest + 1)
        ELSE IF c = ")"
        THEN IF nest = 0
             THEN [sc |-> sc_unget(r.sc), v |-> <<url>>, panic |-> FALSE]
             ELSE scan_link_destination_plain_loop(t, ns, r.sc, Append(url, c), nest - 1)
        ELSE IF c \in CtlOrSpace
        THEN [sc |-> sc_unget(r.sc), v |-> <<url>>, panic |-> FALSE]
        ELSE IF c = "\\"
        THEN IF e.panic THEN [sc |-> e.sc, v |-> <<>>, panic |-> TRUE]
             ELSE IF e.c = <<>> THEN [sc |-> e.sc, v |-> <<>>, panic |-> FALSE]
             ELSE scan_link_destination_plain_loop(t, ns, e.sc,
                      url \o Unescaped(e.c[1], sc_char_bytes(t, ns, r.sc)), nest)
        ELSE scan_link_destination_plain_loop(t, ns, r.sc,
                 url \o sc_char_bytes(t, ns, sc), nest)

scan_link_destination_plain(t, ns, sc) ==
    scan_link_destination_plain_loop(t, ns, sc, <<>>, 0)

RECURSIVE scan_link_destination_pointy_loop(_, _, _, _)
scan_link_destination_pointy_loop(t, ns, sc, url) ==
    LET r == sc_next_char(t, ns, sc)
        c == r.c[1]
        e == sc_next_char(t, ns, r.sc)
    IN  IF r.panic THEN [sc |-> r.sc, v |-> <<>>, panic |-> TRUE]
        ELSE IF r.c = <<>> THEN [sc |-> r.sc, v |-> <<>>, panic |-> FALSE]
        ELSE IF c = ">" THEN [sc |-> r.sc, v |-> <<url>>, panic |-> FALSE]
        ELSE IF c \in Ctl \cup {"<"} THEN [sc |-> r.sc, v |-> <<>>, panic |-> FALSE]
        ELSE IF c = "\\"
        THEN IF e.panic THEN [sc |-> e.sc, v |-> <<>>, panic |-> TRUE]
             ELSE IF e.c = <<>> THEN [sc |-> e.sc, v |-> <<>>, panic |-> FALSE]
             ELSE scan_link_destination_pointy_loop(t, ns, e.sc,
                      url \o Unescaped(e.c[1], sc_char_bytes(t, ns, r.sc)))
        ELSE scan_link_destination_pointy_loop(t, ns, r.sc,
                 url \o sc_char_bytes(t, ns, sc))

scan_link_destination_pointy(t, ns, sc) ==
    LET lt == sc_scan_ch(t, ns, sc, "<")
    IN  IF ~lt.ok THEN [sc |-> lt.sc, v |-> <<>>, panic |-> FALSE]
        ELSE scan_link_destination_pointy_loop(t, ns, lt.sc, <<>>)

scan_link_destination(t, ns, sc) ==
    LET py == scan_link_destination_pointy(t, ns, sc)
    IN  IF py.panic \/ py.v # <<>> THEN py
        ELSE scan_link_destination_plain(t, ns, sc)

RECURSIVE scan_link_title_loop(_, _, _, _, _, _)
scan_link_title_loop(t, ns, sc, open, title, nest) ==
    LET r == sc_next_char(t, ns, sc)
        c == r.c[1]
        nest1 == IF c = open /\ open = "(" THEN nest + 1 ELSE nest
        nest2 == IF open = "(" /\ c = ")" THEN nest1 - 1 ELSE nest1
        e == sc_next_char(t, ns, r.sc)
    IN  IF r.panic THEN [sc |-> r.sc, v |-> <<>>, panic |-> TRUE]
        ELSE IF r.c = <<>> THEN [sc |-> r.sc, v |-> <<>>, panic |-> FALSE]
        ELSE IF c = open /\ open # "("
        THEN [sc |-> r.sc, v |-> <<title>>, panic |-> FALSE]
        ELSE IF open = "(" /\ c = ")" /\ nest1 = 0
        THEN [sc |-> r.sc, v |-> <<title>>, panic |-> FALSE]
        ELSE IF c = "\\"
        THEN IF e.panic THEN [sc |-> e.sc, v |-> <<>>, panic |-> TRUE]
             ELSE IF e.c = <<>> THEN [sc |-> e.sc, v |-> <<>>, panic |-> FALSE]
             ELSE scan_link_title_loop(t, ns, e.sc, open,
                      title \o Unescaped(e.c[1], sc_char_bytes(t, ns, r.sc)), nest2)
        ELSE scan_link_title_loop(t, ns, r.sc, open,
                 title \o sc_char_bytes(t, ns, sc), nest2)

scan_link_title(t, ns, sc) ==
    LET r == sc_next_char(t, ns, sc)
    IN  IF r.panic THEN [sc |-> r.sc, v |-> <<>>, panic |-> TRUE]
        ELSE IF r.c = <<>> THEN [sc |-> r.sc, v |-> <<>>, panic |-> FALSE]
        ELSE IF r.c[1] \notin {"'", "\"", "("}
        THEN [sc |-> r.sc, v |-> <<>>, panic |-> FALSE]
        ELSE scan_link_title_loop(t, ns, r.sc, r.c[1], <<>>, 0)

\* The end of scan_inline_link: ws the whitespace after the url, ti the scan
\* of a title after it.
inline_link_title(t, ns, url, ws, ti) ==
    LET title == IF ws.n > 0 /\ ti.v # <<>> THEN ti.v[1] ELSE <<>>
        after == IF ws.n > 0
                 THEN IF ti.v # <<>>
                      THEN sc_scan_while(t, ns, ti.sc, Is(WhitespaceBytes)).sc
                      ELSE url.sc
                 ELSE ws.sc
        cl == sc_scan_ch(t, ns, after, ")")
    IN  IF ws.n > 0 /\ ti.panic THEN [sc |-> ti.sc, v |-> <<>>, panic |-> TRUE]
        ELSE IF ~cl.ok THEN [sc |-> cl.sc, v |-> <<>>, panic |-> FALSE]
        ELSE [sc |-> cl.sc, v |-> <<<<url.v[1], title>>>>, panic |-> FALSE]

\* The rest of scan_inline_link, on the scan url of the destination.
inline_link_url(t, ns, url) ==
    IF url.panic \/ url.v = <<>> THEN [sc |-> url.sc, v |-> <<>>, panic |-> url.panic]
    ELSE LET ws == sc_scan_while(t, ns, url.sc, Is(WhitespaceBytes))
         IN  inline_link_title(t, ns, url, ws, scan_link_title(t, ns, ws.sc))

\* [sc, v, panic] with v an Option of <<url, title>>.
scan_inline_link(t, ns, sc) ==
    LET op == sc_scan_ch(t, ns, sc, "(")
    IN  IF ~op.ok THEN [sc |-> op.sc, v |-> <<>>, panic |-> FALSE]
        ELSE inline_link_url(t, ns,
                 scan_link_destination(t, ns,
                     sc_scan_while(t, ns, op.sc, Is(WhitespaceBytes)).sc))

(***************************************************************************)
(* handle_inline_pass1: inline HTML, code spans and links.  The loop state *)
(* is [nodes, cur, prev, link_stack, panic, made]; made logs, for every    *)
(* link made, its node and the link stack left after it.                   *)
(***************************************************************************)
\* A scan that would stop at the first later backtick run of any length.
RECURSIVE find_code_close_any(_, _, _)
find_code_close_any(ns, scan, count) ==
    IF scan = NIL THEN NIL
    ELSE IF Tag(ns, scan) = "MaybeCode" THEN scan
    ELSE find_code_close_any(ns, Nd(ns, scan).next, count)

\* The first node from scan on with body MaybeCode(count), or NIL.
RECURSIVE find_code_close(_, _, _)
find_code_close(ns, scan, count) ==
    IF scan = NIL THEN NIL
    ELSE IF Nd(ns, scan).body = [tag |-> "MaybeCode", count |-> count] THEN scan
    ELSE find_code_close(ns, Nd(ns, scan).next, count)

\* The link stack once a link is made.
link_stack_after_link(link_stack) == <<>>

\* A variant of the MaybeHtml branch that leaves the start of the node after
\* the tag where the first pass put it.
pass1_maybe_html_start_kept(st, r) ==
    LET cur == st.cur
        ns == st.nodes
        ni == to_node_and_ix(ns, r.sc)
        n1 == [ns EXCEPT ![cur + 1].body = [tag |-> "InlineHtml"],
                         ![cur + 1].end = ni[2],
                         ![cur + 1].next = ni[1]]
    IN  IF r.ok THEN [st EXCEPT !.nodes = n1, !.cur = ni[1]]
        ELSE [st EXCEPT !.nodes[cur + 1].body = [tag |-> "Text"],
                        !.prev = cur, !.cur = Nd(ns, cur).next]

\* The MaybeHtml branch of the loop, r the result of scan_inline_html after
\* the node.
pass1_maybe_html(st, r) ==
    LET cur == st.cur
        ns == st.nodes
        ni == to_node_and_ix(ns, r.sc)
        node == ni[1]
        n1 == [ns EXCEPT ![cur + 1].body = [tag |-> "InlineHtml"],
                         ![cur + 1].end = ni[2],
                         ![cur + 1].next = node]
        n2 == IF node # NIL THEN [n1 EXCEPT ![node + 1].start = ni[2]] ELSE n1
    IN  IF r.ok THEN [st EXCEPT !.nodes = n2, !.cur = node]
        ELSE [st EXCEPT !.nodes[cur + 1].body = [tag |-> "Text"],
                        !.prev = cur, !.cur = Nd(ns, cur).next]

pass1_maybe_code(t, st) ==
    LET cur == st.cur
        ns == st.nodes
        scan == find_code_close(ns, Nd(ns, cur).next, Nd(ns, cur).body.count)
        mk == make_code_span(t, ns, cur, scan)
    IN  IF scan = NIL
        THEN [st EXCEPT !.nodes[cur + 1].body = [tag |-> "Text"],
                        !.prev = cur, !.cur = Nd(ns, cur).next]
        ELSE IF mk.panic THEN [st EXCEPT !.nodes = mk.nodes, !.panic = TRUE]
        ELSE [st EXCEPT !.nodes = mk.nodes, !.prev = cur,
                        !.cur = Nd(mk.nodes, cur).next]

\* The MaybeLinkClose branch of the loop, r the result of scan_inline_link
\* after the node.
pass1_link_close(st, r) ==
    LET cur == st.cur
        ns == st.nodes
        tos == st.link_stack[Len(st.link_stack)]
        ni == to_node_and_ix(ns, r.sc)
        next_node == ni[1]
        n1 == [ns EXCEPT ![st.prev + 1].next = NIL]
        n2 == [n1 EXCEPT ![tos + 1].body = [tag |-> "Link", url |-> r.v[1][1],
                                            title |-> r.v[1][2]],
                         ![tos + 1].child = Nd(n1, tos).next,
                         ![tos + 1].next = next_node]
        n3 == IF next_node # NIL THEN [n2 EXCEPT ![next_node + 1].start = ni[2]]
              ELSE n2
        stack1 == link_stack_after_link(st.link_stack)
    IN  IF st.link_stack # <<>> /\ r.panic THEN [st EXCEPT !.panic = TRUE]
        ELSE IF st.link_stack # <<>> /\ r.v # <<>>
        THEN IF st.prev = NIL THEN [st EXCEPT !.panic = TRUE]
             ELSE [st EXCEPT !.nodes = n3, !.prev = tos, !.cur = Nd(n3, tos).next,
                             !.link_stack = stack1,
                             !.made = Append(@, [node |-> tos, stack |-> stack1])]
        ELSE [st EXCEPT !.nodes[cur + 1].body = [tag |-> "Text"],
                        !.prev = cur, !.cur = Nd(ns, cur).next]

RECURSIVE pass1_loop(_, _)
pass1_loop(t, st) ==
    IF st.cur = NIL \/ st.panic THEN st
    ELSE LET cur == st.cur
             tg == Tag(st.nodes, cur)
             after == InlineScanner_new(st.nodes, Nd(st.nodes, cur).next)
         IN  IF tg = "MaybeHtml"
             THEN pass1_loop(t, pass1_maybe_html(st, scan_inline_html(t, st.nodes, after)))
             ELSE IF tg = "MaybeCode" THEN pass1_loop(t, pass1_maybe_code(t, st))
             ELSE IF tg = "MaybeLinkOpen"
             THEN pass1_loop(t, [st EXCEPT !.nodes[cur + 1].body = [tag |-> "Text"],
                                           !.link_stack = Append(@, cur),
                                           !.prev = cur,
                                           !.cur = Nd(st.nodes, cur).next])
             ELSE IF tg = "MaybeLinkClose"
             THEN pass1_loop(t, pass1_link_close(st, scan_inline_link(t, st.nodes, after)))
             ELSE pass1_loop(t, [st EXCEPT !.prev = cur,
                                           !.cur = Nd(st.nodes, cur).next])

handle_inline_pass1(t, ns, tree_cur) ==
    pass1_loop(t, [nodes |-> ns, cur |-> tree_cur, prev |-> NIL,
                   link_stack |-> <<>>, panic |-> FALSE, made |-> <<>>])

(***************************************************************************)
(* handle_emphasis.  An InlineEl is [start, count, c, both]; the loop      *)
(* state is [nodes, stack, prev, cur, panic, matches]; matches logs, for   *)
(* every opener/closer match, the two runs, their counts at that time, the *)
(* both flags the match was decided on and the flanking flags of the two   *)
(* runs' own nodes.                                                        *)
(***************************************************************************)
\* Some(<<j, el>>) with j the 0-based stack index, or None.
RECURSIVE find_match_from(_, _, _, _, _)
find_match_from(stack, k, c, count, both) ==
    IF k = 0 THEN <<>>
    ELSE LET el == stack[k]
         IN  IF el.c = c /\ ~((both \/ el.both) /\ (count + el.count) % 3 = 0)
             THEN <<<<k - 1, el>>>>
             ELSE find_match_from(stack, k - 1, c, count, both)

find_match(stack, c, count, both) == find_match_from(stack, Len(stack), c, count, both)

\* A variant that leaves the nodes of an unmatched run as they are.
run_unchanged(ns, start, count) == ns

\* The nodes of a run of count delimiters become Text.
RECURSIVE run_to_text(_, _, _)
run_to_text(ns, start, count) ==
    IF count = 0 THEN ns
    ELSE run_to_text([ns EXCEPT ![start + count].body = [tag |-> "Text"]],
                     start, count - 1)

\* A variant that, for a match, leaves the entries above the matched one on
\* the stack and their nodes as they are: the matched entry is moved to the
\* top, where the caller pops it.
RECURSIVE pop_to_keep(_, _, _)
pop_to_keep(ns, stack, new_len) ==
    IF new_len > 0
    THEN [nodes |-> ns,
          stack |-> SubSeq(stack, 1, new_len - 1)
                    \o SubSeq(stack, new_len + 1, Len(stack))
                    \o <<stack[new_len]>>]
    ELSE IF Len(stack) > 0
    THEN pop_to_keep(run_to_text(ns, stack[Len(stack)].start, stack[Len(stack)].count),
                     SubSeq(stack, 1, Len(stack) - 1), 0)
    ELSE [nodes |-> ns, stack |-> stack]

\* InlineStack::pop_to: [nodes, stack].
RECURSIVE pop_to(_, _, _)
pop_to(ns, stack, new_len) ==
    IF Len(stack) > new_len
    THEN LET el == stack[Len(stack)]
         IN  pop_to(run_to_text(ns, el.start, el.count),
                    SubSeq(stack, 1, Len(stack) - 1), new_len)
    ELSE [nodes |-> ns, stack |-> stack]

\* The both flag of the opener remainder pushed back after a partial match.
remainder_both(el_both, both) == both

\* A loop that would make one Emphasis node of every matched delimiter.
RECURSIVE wrap_loop_single(_, _, _, _, _)
wrap_loop_single(ns, el, start, end, next) ==
    IF start < el.start + el.count
    THEN wrap_loop_single([ns EXCEPT ![start + 1].body = [tag |-> "Emphasis"],
                                     ![start + 1].end = Nd(ns, end - 1).end,
                                     ![start + 1].child = start + 1,
                                     ![start + 1].next = next],
                          el, start + 1, end - 1, NIL)
    ELSE ns

\* The loop that turns the matched opener nodes into Strong and Emphasis.
RECURSIVE wrap_loop(_, _, _, _, _)
wrap_loop(ns, el, start, end, next) ==
    IF start < el.start + el.count
    THEN LET strong == el.start + el.count - start > 1
             inc == IF strong THEN 2 ELSE 1
             root == start + inc
             end1 == end - inc
         IN  wrap_loop([ns EXCEPT ![start + 1].body =
                                      [tag |-> IF strong THEN "Strong" ELSE "Emphasis"],
                                  ![start + 1].end = Nd(ns, end1).end,
                                  ![start + 1].child = root,
                                  ![start + 1].next = next],
                       el, root, end1, NIL)
    ELSE ns

\* The closer loop of one run: [st, count].
RECURSIVE closer_loop(_, _, _, _)
closer_loop(st, c, count, both) ==
    LET fm == find_match(st.stack, c, count, both)
        j == fm[1][1]
        el == fm[1][2]
        cur == st.cur
        n1 == [st.nodes EXCEPT ![st.prev + 1].next = NIL]
        match_count == Min2(count, el.count)
        end == cur + match_count
        cur1 == Nd(n1, end - 1).next
        start == el.start + el.count - match_count
        n2 == wrap_loop(n1, el, start, end, cur1)
        pt == pop_to(n2, st.stack, j + 1)
        popped == SubSeq(pt.stack, 1, Len(pt.stack) - 1)
        stack1 == IF el.count > match_count
                  THEN Append(popped, [start |-> el.start,
                                       count |-> el.count - match_count,
                                       c |-> el.c,
                                       both |-> remainder_both(el.both, both)])
                  ELSE popped
        own == Nd(st.nodes, el.start).body
        m == [opener |-> el.start, closer |-> cur, ocount |-> el.count,
              ccount |-> count, oboth |-> el.both, cboth |-> both,
              oown |-> own.can_open /\ own.can_close,
              first |-> start, match_count |-> match_count]
        st1 == [st EXCEPT !.nodes = pt.nodes, !.stack = stack1, !.prev = start,
                          !.cur = cur1, !.matches = Append(@, m)]
    IN  IF fm = <<>> \/ st.panic THEN [st |-> st, count |-> count]
        ELSE IF st.prev = NIL THEN [st |-> [st EXCEPT !.panic = TRUE], count |-> count]
        ELSE IF count - match_count = 0 THEN [st |-> st1, count |-> 0]
        ELSE closer_loop(st1, c, count - match_count, both)

RECURSIVE emphasis_loop(_, _)
\* The rest of the iteration on a delimiter run, cl the result of its closer
\* loop: what is left of the run is pushed as an opener or becomes text.
emphasis_run(t, body, c, both, cl) ==
    LET s1 == cl.st
        cur == s1.cur
        count == cl.count
        prev == cur + count - 1
    IN  IF s1.panic THEN s1
        ELSE IF count > 0
        THEN IF cur = NIL THEN [s1 EXCEPT !.panic = TRUE]
             ELSE IF body.can_open
             THEN emphasis_loop(t,
                      [s1 EXCEPT !.stack = Append(@, [start |-> cur, count |-> count,
                                                      c |-> c, both |-> both]),
                                 !.prev = prev, !.cur = Nd(s1.nodes, prev).next])
             ELSE LET n1 == run_to_text(s1.nodes, cur, count)
                  IN  emphasis_loop(t, [s1 EXCEPT !.nodes = n1, !.prev = prev,
                                                  !.cur = Nd(n1, prev).next])
        ELSE emphasis_loop(t, s1)

emphasis_loop(t, st) ==
    IF st.cur = NIL \/ st.panic THEN st
    ELSE IF Tag(st.nodes, st.cur) = "Inline"
    THEN LET body == Nd(st.nodes, st.cur).body
             c == B(t, Nd(st.nodes, st.cur).start)
             both == body.can_open /\ body.can_close
         IN  emphasis_run(t, body, c, both,
                 IF body.can_close THEN closer_loop(st, c, body.count, both)
                 ELSE [st |-> st, count |-> body.count])
    ELSE emphasis_loop(t, [st EXCEPT !.prev = st.cur, !.cur = Nd(st.nodes, st.cur).next])

\* The end of handle_emphasis, on the final state st of its loop.
handle_emphasis_end(st) ==
    [nodes |-> IF st.panic THEN st.nodes ELSE pop_to(st.nodes, st.stack, 0).nodes,
     panic |-> st.panic, matches |-> st.matches]

\* [nodes, panic, matches]
handle_emphasis(t, ns, tree_cur) ==
    handle_emphasis_end(
        emphasis_loop(t, [nodes |-> ns, stack |-> <<>>, prev |-> NIL,
                          cur |-> tree_cur, panic |-> FALSE, matches |-> <<>>]))

\* The second pass, on the result p1 of the first.
handle_inline_pass2(t, p1, tree_cur) ==
    LET em == handle_emphasis(t, p1.nodes, tree_cur)
    IN  IF p1.panic
        THEN [nodes |-> p1.nodes, panic |-> TRUE, made |-> p1.made, matches |-> <<>>]
        ELSE [nodes |-> em.nodes, panic |-> em.panic, made |-> p1.made,
              matches |-> em.matches]

\* A variant that, after the two passes, also rewrites the markers that are
\* left anywhere in the arena to Text.
handle_inline_all_chains(t, ns, tree_cur) ==
    LET r == handle_inline_pass2(t, handle_inline_pass1(t, ns, tree_cur), tree_cur)
    IN  [r EXCEPT !.nodes =
            [i \in 1..Len(r.nodes) |->
                IF r.nodes[i].body.tag \in {"Inline", "MaybeHtml", "MaybeCode",
                                            "MaybeLinkOpen", "MaybeLinkClose"}
                THEN [r.nodes[i] EXCEPT !.body = [tag |-> "Text"]]
                ELSE r.nodes[i]]]

\* [nodes, panic, made, matches]
handle_inline(t, ns, tree_cur) ==
    handle_inline_pass2(t, handle_inline_pass1(t, ns, tree_cur), tree_cur)

(***************************************************************************)
(* The event iterator.  An event is [kind, tag, node, start, end, lit]:    *)
(* kind is Start, End, Text, Html, InlineHtml, SoftBreak or HardBreak; tag *)
(* is the Tag of a Start or End; node is the arena index the event was     *)
(* made from; start and end delimit the input slice of the event, when it  *)
(* has one; lit is the text of a synthesized event.                        *)
(***************************************************************************)
NoTag == [name |-> "None"]

\* Option of Tag.
item_to_tag(item) ==
    LET tg == item.body.tag
    IN  IF tg \in {"Paragraph", "Code", "Emphasis", "Strong", "Rule", "BlockQuote"}
        THEN <<[name |-> tg]>>
        ELSE IF tg = "Link"
        THEN <<[name |-> "Link", url |-> item.body.url, title |-> item.body.title]>>
        ELSE IF tg = "Header" THEN <<[name |-> "Header", level |-> item.body.level]>>
        ELSE IF tg = "FencedCodeBlock"
        THEN <<[name |-> "CodeBlock", info |-> item.body.info]>>
        ELSE IF tg = "IndentCodeBlock" THEN <<[name |-> "CodeBlock", info |-> <<>>]>>
        ELSE IF tg = "List" THEN <<[name |-> "List", index |-> item.body.index]>>
        ELSE IF tg = "ListItem" THEN <<[name |-> "Item"]>>
        ELSE IF tg = "HtmlBlock" THEN <<[name |-> "HtmlBlock"]>>
        ELSE <<>>

Ev(kind, tag, node, start, end, lit) ==
    [kind |-> kind, tag |-> tag, node |-> node, start |-> start, end |-> end,
     lit |-> lit]

\* A slice text[start..end] panics unless start <= end <= len and both are
\* character boundaries.
SliceOk(t, item) ==
    /\ item.start <= item.end /\ item.end <= Len(t)
    /\ is_char_boundary(t, item.start) /\ is_char_boundary(t, item.end)

\* Leaf items only: Option of event, None for a panic.
item_to_event(t, item, node) ==
    LET tg == item.body.tag
    IN  IF tg \in {"Text", "Html", "InlineHtml"}
        THEN IF SliceOk(t, item)
             THEN <<Ev(tg, NoTag, node, item.start, item.end, <<>>)>>
             ELSE <<>>
        ELSE IF tg = "SynthesizeText"
        THEN <<Ev("Text", NoTag, node, NIL, NIL, item.body.lit)>>
        ELSE IF tg = "SynthesizeNewLine"
        THEN <<Ev("Text", NoTag, node, NIL, NIL, <<"\n">>)>>
        ELSE IF tg = "BlankLine" THEN <<Ev("Text", NoTag, node, NIL, NIL, <<>>)>>
        ELSE IF tg \in {"SoftBreak", "HardBreak"}
        THEN <<Ev(tg, NoTag, node, NIL, NIL, <<>>)>>
        ELSE <<>>

InlineMarkers == {"Inline", "MaybeHtml", "MaybeCode", "MaybeLinkOpen", "MaybeLinkClose"}

\* Parser::new_ext after the first pass: the cursor at the first node.
new_ext_cur(ns) == IF ns = <<>> THEN NIL ELSE 0

\* The second half of Parser::next, on the node the cursor is at.  The field
\* panic names the place of a panic: index (a node index out of range),
\* item_to_event, handle_inline, or the empty string when there is none.
next_emit(t, ns, cur, spine) ==
    LET item == [start |-> Nd(ns, cur).start, end |-> Nd(ns, cur).end,
                 body |-> Nd(ns, cur).body]
        tag == item_to_tag(item)
        ev == item_to_event(t, item, cur)
    IN  IF cur = NIL \/ cur >= Len(ns)
        THEN [nodes |-> ns, cur |-> cur, spine |-> spine, ev |-> <<>>,
              panic |-> "index"]
        ELSE IF tag # <<>>
        THEN [nodes |-> ns, cur |-> Nd(ns, cur).child, spine |-> Append(spine, cur),
              ev |-> <<Ev("Start", tag[1], cur, NIL, NIL, <<>>)>>, panic |-> ""]
        ELSE IF ev = <<>>
        THEN [nodes |-> ns, cur |-> Nd(ns, cur).next, spine |-> spine, ev |-> <<>>,
              panic |-> "item_to_event"]
        ELSE [nodes |-> ns, cur |-> Nd(ns, cur).next, spine |-> spine,
              ev |-> ev, panic |-> ""]

\* The branch of Parser::next for a node with inline markers, hi the result
\* of handle_inline.
Parser_next_inline(t, cur, spine, hi) ==
    IF hi.panic
    THEN [nodes |-> hi.nodes, cur |-> cur, spine |-> spine, ev |-> <<>>,
          panic |-> "handle_inline", inline |-> <<>>, made |-> hi.made,
          matches |-> hi.matches]
    ELSE next_emit(t, hi.nodes, cur, spine)
         @@ [inline |-> <<cur>>, made |-> hi.made, matches |-> hi.matches]

\* Parser::next with the cursor on a node: [nodes, cur, spine, ev, panic,
\* inline, made, matches]; inline is Some(cursor) when handle_inline ran.
Parser_next(t, ns, cur, spine) ==
    LET tg == Tag(ns, cur)
        none == [inline |-> <<>>, made |-> <<>>, matches |-> <<>>]
    IN  IF cur >= Len(ns)
        THEN [nodes |-> ns, cur |-> cur, spine |-> spine, ev |-> <<>>,
              panic |-> "index"] @@ none
        ELSE IF tg \in InlineMarkers
        THEN Parser_next_inline(t, cur, spine, handle_inline(t, ns, cur))
        ELSE IF tg = "Backslash" THEN next_emit(t, ns, Nd(ns, cur).next, spine) @@ none
        ELSE next_emit(t, ns, cur, spine) @@ none

(***************************************************************************)
(* The program as a state machine.  The input text is chosen at Init; the  *)
(* first pass runs one parse_block per step, then FirstPass::run pops the  *)
(* open containers and Parser::new_ext resets the cursor; then every step  *)
(* is one call of Parser::next.                                            *)
(*                                                                         *)
(*   pc         first_pass, iter, done (next returned None), panic, hang   *)
(*   panic_in   the place of the panic: first_pass, unwrap, index,         *)
(*              item_to_event or handle_inline                             *)
(*   events     the events returned by next so far                         *)
(*   inline_at  Some(tree.cur) of the last call of handle_inline           *)
(*   made       the links made by the calls of handle_inline               *)
(*   matches    the emphasis matches made by the calls of handle_inline    *)
(***************************************************************************)
VARIABLES text, nodes, cur, spine, last_line_blank, ix, pc, panic_in, events,
          inline_at, made, matches

vars == <<text, nodes, cur, spine, last_line_blank, ix, pc, panic_in, events,
          inline_at, made, matches>>

\* Bounds of the inputs.
MaxLines == 4

MaxTokens == 4

MaxEmph == 6

\* All concatenations of at most n fragments of V.
RECURSIVE Cat(_, _)
Cat(V, n) ==
    IF n = 0 THEN {<<>>}
    ELSE LET shorter == Cat(V, n - 1)
         IN  shorter \cup {p \o f : p \in shorter, f \in V}

\* Lines of lists, paragraphs and fenced code blocks.
BlockLines ==
    { <<"-", " ", "a", "\n">>,
      <<"-", "\n">>,
      <<"\n">>,
      <<"-", " ", " ", " ", " ", " ", "c", "\n">>,
      <<" ", " ", "b", "\n">>,
      <<"b", "\n">>,
      <<"b">>,
      <<BT, BT, BT, "\n">>,
      <<">", " ", BT, BT, BT, "\n">> }

InitWith(inputs) ==
    /\ text \in inputs
    /\ nodes = <<>>
    /\ cur = NIL
    /\ spine = <<>>
    /\ last_line_blank = FALSE
    /\ ix = 0
    /\ pc = "first_pass"
    /\ panic_in = ""
    /\ events = <<>>
    /\ inline_at = <<>>
    /\ made = <<>>
    /\ matches = <<>>

Init == InitWith(Cat(BlockLines, MaxLines))

FirstPassState ==
    [nodes |-> nodes, cur |-> cur, spine |-> spine,
     last_line_blank |-> last_line_blank, panic |-> FALSE, hang |-> FALSE]

\* One iteration of the loop of FirstPass::run.
ParseBlock ==
    /\ pc = "first_pass"
    /\ ix < Len(text)
    /\ \E r \in {parse_block(text, FirstPassState, ix)} :
           /\ nodes' = r.fp.nodes
           /\ cur' = r.fp.cur
           /\ spine' = r.fp.spine
           /\ last_line_blank' = r.fp.last_line_blank
           /\ ix' = r.ix
           /\ pc' = IF r.fp.panic THEN "panic"
                    ELSE IF r.fp.hang THEN "hang" ELSE "first_pass"
           /\ panic_in' = IF r.fp.panic THEN "first_pass" ELSE ""
    /\ UNCHANGED <<text, events, inline_at, made, matches>>

\* The end of FirstPass::run, and Parser::new_ext.
RunFinish ==
    /\ pc = "first_pass"
    /\ ix >= Len(text)
    /\ \E fp \in {pop_times(FirstPassState, Len(spine), ix)} :
           /\ nodes' = fp.nodes
           /\ last_line_blank' = fp.last_line_blank
           /\ IF fp.panic
              THEN /\ pc' = "panic" /\ panic_in' = "first_pass"
                   /\ cur' = fp.cur /\ spine' = fp.spine
              ELSE /\ pc' = "iter" /\ panic_in' = ""
                   /\ cur' = new_ext_cur(fp.nodes) /\ spine' = <<>>
    /\ UNCHANGED <<text, ix, events, inline_at, made, matches>>

\* One call of Parser::next.
ParserNext ==
    /\ pc = "iter"
    /\ IF cur = NIL
       THEN IF spine # <<>>
            THEN LET top == spine[Len(spine)]
                     tag == item_to_tag(Nd(nodes, top))
                 IN  /\ spine' = SubSeq(spine, 1, Len(spine) - 1)
                     /\ IF tag = <<>>
                        THEN /\ pc' = "panic" /\ panic_in' = "unwrap"
                             /\ UNCHANGED <<cur, events>>
                        ELSE /\ cur' = Nd(nodes, top).next
                             /\ events' = Append(events,
                                    Ev("End", tag[1], top, NIL, NIL, <<>>))
                             /\ pc' = "iter" /\ panic_in' = ""
                     /\ UNCHANGED <<nodes, inline_at, made, matches>>
            ELSE /\ pc' = "done"
                 /\ UNCHANGED <<nodes, cur, spine, events, inline_at, made, matches,
                                panic_in>>
       ELSE \E r \in {Parser_next(text, nodes, cur, spine)} :
                /\ nodes' = r.nodes
                /\ cur' = r.cur
                /\ spine' = r.spine
                /\ events' = events \o r.ev
                /\ pc' = IF r.panic # "" THEN "panic" ELSE "iter"
                /\ panic_in' = r.panic
                /\ inline_at' = IF r.inline # <<>> THEN r.inline ELSE inline_at
                /\ made' = made \o r.made
                /\ matches' = matches \o r.matches
    /\ UNCHANGED <<text, last_line_blank, ix>>

Next == ParseBlock \/ RunFinish \/ ParserNext

\* Inputs made of lines of lists, paragraphs and fenced code blocks.
Spec == Init /\ [][Next]_vars

\* Inputs made of inline tokens: links, inline HTML, code spans, emphasis,
\* escapes.
InlineTokens ==
    { <<"a">>, <<"[">>, <<"]", "(", "x", ")">>, <<"<", "b", ">">>, <<BT>>, <<"*">>,
      <<"\\">>, <<"\n">> }

InitInline == InitWith(Cat(InlineTokens, MaxTokens))

SpecInline == InitInline /\ [][Next]_vars

\* Inputs made of emphasis runs and text.
EmphTokens == { <<"a">>, <<"*", "*", "*">>, <<"*">>, <<"*", " ">> }

InitEmph == InitWith(Cat(EmphTokens, MaxEmph))

SpecEmph == InitEmph /\ [][Next]_vars

\* Inputs made of list markers and inline tokens: the trees they give go
\* through tight-list surgery and through inline resolution.
MaxTree == 5

TreeTokens ==
    { <<"-", " ">>, <<"a">>, <<"*">>, <<BT>>, <<"<", "b", ">">>, <<"[">>,
      <<"]", "(", "x", ")">>, <<" ", " ">>, <<"\n">> }

InitTree == InitWith(Cat(TreeTokens, MaxTree))

SpecTree == InitTree /\ [][Next]_vars

\* Inputs made of lines of leaf blocks: ATX headings, fenced and indented
\* code blocks and HTML blocks, at top level and in a block quote.
MaxLeafLines == 3

LeafLines ==
    { <<"#", "\n">>,
      <<"#", " ", "#", "\n">>,
      <<"#", " ", "a", " ", "#", "\n">>,
      <<BT, BT, BT, "\n">>,
      <<BT, BT, BT, BT, " ", "\n">>,
      <<BT, BT, BT, "a", "\n">>,
      <<" ", " ", BT, BT, BT, "\n">>,
      <<" ", " ", " ", " ", BT, BT, BT, "\n">>,
      <<"~", "~", "~", "\n">>,
      <<">", " ", BT, BT, BT, "\n">>,
      <<">", " ", " ", " ", " ", " ", "c", "\n">>,
      <<">", " ", "<", "d", "i", "v", ">", "\n">>,
      <<">", " ", "<", "p", "r", "e", ">", "\n">>,
      <<">", " ", "b", "\n">>,
      <<"b", "\n">>,
      <<"\n">> }

InitLeaf == InitWith(Cat(LeafLines, MaxLeafLines))

SpecLeaf == InitLeaf /\ [][Next]_vars

\* Inputs made of paragraph lines, with hard breaks, setext underlines, lazy
\* continuation lines and lines that interrupt a paragraph, at top level,
\* in a block quote and in a list item.
MaxParaLines == 3

ParaLines ==
    { <<"a", "\n">>,
      <<"b">>,
      <<"a", "\\", "\n">>,
      <<"a", " ", " ", "\n">>,
      <<"\\", "\n">>,
      <<">", " ", "a", "\n">>,
      <<">", " ", "a", "\\", "\n">>,
      <<"-", " ", "a", "\n">>,
      <<"-", " ", "\\", "\n">>,
      <<">", " ", "-", " ", "a", "\n">>,
      <<"=", "=", "\n">>,
      <<">", " ", "=", "=", "\n">>,
      <<" ", " ", "=", "=", "\n">>,
      <<" ", " ", " ", " ", "=", "=", "\n">>,
      <<"-", "-", "-", "\n">>,
      <<"#", " ", "a", "\n">>,
      <<BT, BT, BT, "\n">>,
      <<"<", "d", "i", "v", ">", "\n">>,
      <<"\n">> }

InitPara == InitWith(Cat(ParaLines, MaxParaLines))

SpecPara == InitPara /\ [][Next]_vars

\* The same lines and a blank line of 4 spaces, which the indent test of
\* parse_paragraph keeps from scan_paragraph_interrupt.
LazyLines == ParaLines \cup { <<" ", " ", " ", " ", "\n">> }

InitLazy == InitWith(Cat(LazyLines, MaxParaLines))

SpecLazy == InitLazy /\ [][Next]_vars

\* Inputs made of backtick runs of two lengths, text, spaces and line
\* endings: code spans, runs that stay unmatched and runs inside a span.
MaxCode == 5

CodeTokens ==
    { <<BT>>, <<BT, BT>>, <<"a">>, <<" ">>, <<"\n">>, <<"\\", "\n">> }

InitCode == InitWith(Cat(CodeTokens, MaxCode))

SpecCode == InitCode /\ [][Next]_vars

\* Inputs made of delimiters of the two kinds, text and spaces: openers of
\* one kind between an opener and a closer of the other.
MaxNest == 6

NestTokens == { <<"a">>, <<"*">>, <<"_">>, <<" ">> }

InitNest == InitWith(Cat(NestTokens, MaxNest))

SpecNest == InitNest /\ [][Next]_vars

\* Inputs made of lines of bullet and ordered list items with different
\* marker characters, of blank lines, and of paragraph and block quote
\* lines that end a list or continue an item.
MaxListLines == 3

ListLines ==
    { <<"-", " ", "a", "\n">>,
      <<"*", " ", "a", "\n">>,
      <<"1", ".", " ", "a", "\n">>,
      <<" ", " ", "-", " ", "a", "\n">>,
      <<"\n">>,
      <<"b", "\n">>,
      <<" ", " ", "b", "\n">>,
      <<">", " ", "b", "\n">> }

InitList == InitWith(Cat(ListLines, MaxListLines))

SpecList == InitList /\ [][Next]_vars

\* Inputs made of lines with brackets, link destinations and an inline
\* HTML tag at top level and in a list item, with an ATX heading in the
\* item: blocks of an item whose inline nodes tight-list surgery puts on
\* one chain.
MaxLinkLines == 3

LinkLines ==
    { <<"-", " ", "[", "a", "\n">>,
      <<" ", " ", "#", " ", "[", "b", "]", "(", "y", ")", "\n">>,
      <<" ", " ", "]", "(", "x", ")", "\n">>,
      <<"[", "a", "]", "(", "x", ")", "\n">>,
      <<"[", "a", "\n">>,
      <<"<", "b", ">", "a", "\n">>,
      <<"\n">> }

InitLink == InitWith(Cat(LinkLines, MaxLinkLines))

SpecLink == InitLink /\ [][Next]_vars

(***************************************************************************)
(* Properties.                                                             *)
(***************************************************************************)
\* The nodes of the sibling chain that starts at k, in order.
RECURSIVE Chain(_, _)
Chain(ns, k) ==
    IF k = NIL \/ k >= Len(ns) THEN <<>> ELSE <<k>> \o Chain(ns, Nd(ns, k).next)

Range(f) == {f[i] : i \in DOMAIN f}

\* The Start events left open by a sequence of events, outermost first, and
\* whether every End closed the innermost open Start with the same tag.
RECURSIVE Nesting(_, _, _)
Nesting(evs, i, open) ==
    IF i > Len(evs) THEN [open |-> open, ok |-> TRUE]
    ELSE IF evs[i].kind = "Start" THEN Nesting(evs, i + 1, Append(open, evs[i]))
    ELSE IF evs[i].kind = "End"
    THEN IF open # <<>> /\ open[Len(open)].tag = evs[i].tag
                        /\ open[Len(open)].node = evs[i].node
         THEN Nesting(evs, i + 1, SubSeq(open, 1, Len(open) - 1))
         ELSE [open |-> open, ok |-> FALSE]
    ELSE Nesting(evs, i + 1, open)

OpenStarts(evs) == Nesting(evs, 1, <<>>).open

WellNested(evs) == Nesting(evs, 1, <<>>).ok

\* The run is over: next returned None, or the program panicked.
Ended == pc \in {"done", "panic"}

\* C1: the events returned by next are correctly nested: every End closes
\* the innermost open Start, with the same tag, and once the run is over no
\* Start is left open.
C1_Balanced == WellNested(events) /\ (Ended => OpenStarts(events) = <<>>)

\* C1, as far as it does not rest on C2: the events are correctly nested,
\* and no Start is left open when next returns None.
C1_BalancedUnlessPanic ==
    WellNested(events) /\ (pc = "done" => OpenStarts(events) = <<>>)

\* C2: the parser is total: no run reaches a panic or an index out of range,
\* in the first pass or in a call of next.
C2_Total == pc # "panic"

\* The open Starts around the last event.
Enclosing(evs) == OpenStarts(SubSeq(evs, 1, Len(evs) - 1))

\* The last event lies directly in an item of a list; tight tells which lists.
InItemOfList(evs, tight) ==
    LET open == Enclosing(evs)
        n == Len(open)
    IN  /\ n >= 2
        /\ open[n].tag.name = "Item"
        /\ open[n - 1].tag.name = "List"
        /\ Nd(nodes, open[n - 1].node).body.tag = "List"
        /\ Nd(nodes, open[n - 1].node).body.is_tight = tight

IsStartOf(e, name) == e.kind = "Start" /\ e.tag.name = name

\* The paragraphs that are direct children of the items of list l.
ItemParagraphs(l) ==
    { p \in 0..(Len(nodes) - 1) :
        /\ Tag(nodes, p) = "Paragraph"
        /\ \E it \in Range(Chain(nodes, Nd(nodes, l).child)) :
              /\ Tag(nodes, it) = "ListItem"
              /\ p \in Range(Chain(nodes, Nd(nodes, it).child)) }

Emitted(kind, node) == \E i \in 1..Len(events) : events[i].kind = kind /\ events[i].node = node

\* C3: no Start(Paragraph) is emitted directly in an item of a tight list,
\* and once the run is done every paragraph that is a direct child of an
\* item of an emitted loose list has had its Start and its End.
C3_TightListSurgery ==
    /\ (events # <<>> /\ IsStartOf(events[Len(events)], "Paragraph"))
          => ~InItemOfList(events, TRUE)
    /\ pc = "done" =>
          \A i \in 1..Len(events) :
             (IsStartOf(events[i], "List")
                /\ Nd(nodes, events[i].node).body.tag = "List"
                /\ ~Nd(nodes, events[i].node).body.is_tight)
             => \A p \in ItemParagraphs(events[i].node) :
                   Emitted("Start", p) /\ Emitted("End", p)

\* A tight list of two items is done, with the text of an item emitted
\* directly in the item.
C3_Witness ==
    /\ pc = "done"
    /\ \E i \in 2..Len(events) :
          /\ events[i].kind = "Text"
          /\ InItemOfList(SubSeq(events, 1, i), TRUE)
    /\ \E l \in 0..(Len(nodes) - 1) :
          /\ Tag(nodes, l) = "List"
          /\ Len(Chain(nodes, Nd(nodes, l).child)) >= 2

\* A loose list is done with the paragraphs of its items emitted.
C3_WitnessLoose ==
    /\ pc = "done"
    /\ \E i \in 1..Len(events) :
          /\ IsStartOf(events[i], "List")
          /\ ~Nd(nodes, events[i].node).body.is_tight
          /\ ItemParagraphs(events[i].node) # {}

\* The lines of a text, without their line endings.
RECURSIVE SplitLines(_, _, _)
SplitLines(t, i, line) ==
    IF i > Len(t) THEN (IF line = <<>> THEN <<>> ELSE <<line>>)
    ELSE IF t[i] = "\n" THEN <<line>> \o SplitLines(t, i + 1, <<>>)
    ELSE SplitLines(t, i + 1, Append(line, t[i]))

Lines(t) == SplitLines(t, 1, <<>>)

IsBlankLine(l) == \A i \in 1..Len(l) : l[i] \in {" ", "\t"}

\* A line that starts an item of a bullet list at the left margin.
IsItemLine(l) == Len(l) >= 1 /\ l[1] = "-" /\ (Len(l) = 1 \/ l[2] = " ")

\* A line of text indented by the width of the list marker: it continues, or
\* adds a child to, the item that is open.
IsChildLine(l) ==
    Len(l) >= 3 /\ l[1] = " " /\ l[2] = " " /\ is_ascii_alphanumeric(l[3])

\* An item line with content after the marker.
IsFullItemLine(l) == IsItemLine(l) /\ ~IsBlankLine(Tail(l))

\* The text is one bullet list at the left margin, and blank lines.
ListOnly(ls) ==
    /\ \E i \in 1..Len(ls) :
          IsItemLine(ls[i]) /\ \A j \in 1..(i - 1) : IsBlankLine(ls[j])
    /\ \A i \in 1..Len(ls) :
          IsBlankLine(ls[i]) \/ IsItemLine(ls[i]) \/ IsChildLine(ls[i])

\* A blank line lies between two consecutive items, or between two children
\* of one item.
BlankInside(ls) ==
    \E i \in 1..(Len(ls) - 2) :
       /\ IsBlankLine(ls[i + 1])
       /\ \/ ~IsBlankLine(ls[i]) /\ IsItemLine(ls[i + 2])
          \/ (IsFullItemLine(ls[i]) \/ IsChildLine(ls[i])) /\ IsChildLine(ls[i + 2])

\* Blank lines lie only before the first item and after the last line of the
\* list.
BlankOutsideOnly(ls) ==
    \A i, j, k \in 1..Len(ls) :
       (i < j /\ j < k /\ IsBlankLine(ls[j])) => (IsBlankLine(ls[i]) \/ IsBlankLine(ls[k]))

FirstPassOver == pc \in {"iter", "done"}

\* The list of a text that is one list: the first node.
TheList == Nd(nodes, 0).body

\* C4: a list with a blank line between two consecutive items, or between
\* two children of one item, is loose once the first pass has popped it.
C4_BlankLoosens ==
    (FirstPassOver /\ ListOnly(Lines(text)) /\ BlankInside(Lines(text)))
       => (TheList.tag = "List" /\ ~TheList.is_tight)

\* C5: a list with no blank line between its items and their children is
\* tight once the first pass has popped it, whatever blank lines come before
\* or after it.
C5_OuterBlankKeepsTight ==
    (FirstPassOver /\ ListOnly(Lines(text)) /\ BlankOutsideOnly(Lines(text)))
       => (TheList.tag = "List" /\ TheList.is_tight)

\* The nodes of the sibling chain from k on that are still inline markers.
Unresolved(k) == { n \in Range(Chain(nodes, k)) : Tag(nodes, n) \in InlineMarkers }

\* The node that the next call of Parser::next hands to item_to_event: the
\* cursor, or the node after a Backslash.
EmittedNode == IF Tag(nodes, cur) = "Backslash" THEN Nd(nodes, cur).next ELSE cur

\* When the next call of Parser::next panics in item_to_event, which leaves
\* the cursor on the node after, the node it was called on is no marker.
NoMarkerToEvent ==
    (pc = "iter" /\ cur # NIL /\ cur < Len(nodes)) =>
        (Parser_next(text, nodes, cur, spine).panic = "item_to_event" =>
            Tag(Parser_next(text, nodes, cur, spine).nodes, EmittedNode)
                \notin InlineMarkers)

\* C6: after handle_inline has returned, no node of the sibling chain that
\* starts at the cursor it was called at is an Inline, MaybeCode, MaybeHtml,
\* MaybeLinkOpen or MaybeLinkClose; no event is made from such a node, and
\* item_to_event never panics on one.
C6_MarkersResolved ==
    /\ inline_at # <<>> => Unresolved(inline_at[1]) = {}
    /\ \A i \in 1..Len(events) : Tag(nodes, events[i].node) \notin InlineMarkers
    /\ NoMarkerToEvent

\* A marker byte that stands alone as a Text node.
IsRewrittenMarker(n) ==
    /\ Tag(nodes, n) = "Text"
    /\ Nd(nodes, n).end = Nd(nodes, n).start + 1
    /\ B(text, Nd(nodes, n).start) \in {"*", "[", "]", "<", BT}

\* handle_inline has run on a chain with an unmatched emphasis run, an
\* unmatched bracket and an unmatched backtick or angle bracket, all of
\* them rewritten to Text.
C6_Witness ==
    /\ inline_at # <<>>
    /\ LET rewritten == { B(text, Nd(nodes, n).start) :
                            n \in { m \in Range(Chain(nodes, inline_at[1])) :
                                      IsRewrittenMarker(m) } }
       IN  /\ "*" \in rewritten
           /\ "[" \in rewritten
           /\ (BT \in rewritten \/ "<" \in rewritten)

\* A line that opens or closes a fenced code block at the left margin.
IsFenceLine(l) == Len(l) >= 3 /\ SubSeq(l, 1, 3) = <<BT, BT, BT>>

\* A line that opens or closes a fenced code block in a block quote.
IsQuotedFenceLine(l) == Len(l) >= 5 /\ SubSeq(l, 1, 5) = <<">", " ", BT, BT, BT>>

\* The first fence of the text opens a code block whose closing fence never
\* appears before the input is exhausted: a fence at the left margin with no
\* fence at the left margin after it, or a fence in a block quote on the
\* last line.
UnterminatedFence(ls) ==
    \E i \in 1..Len(ls) :
       /\ \A j \in 1..(i - 1) : ~IsFenceLine(ls[j]) /\ ~IsQuotedFenceLine(ls[j])
       /\ \/ IsFenceLine(ls[i]) /\ \A j \in (i + 1)..Len(ls) : ~IsFenceLine(ls[j])
          \/ IsQuotedFenceLine(ls[i]) /\ i = Len(ls)

FencedBlocks == { k \in 0..(Len(nodes) - 1) : Tag(nodes, k) = "FencedCodeBlock" }

\* The first fence of the text is in a block quote, on the last line.
UnterminatedQuotedFence(ls) ==
    /\ ls # <<>>
    /\ IsQuotedFenceLine(ls[Len(ls)])
    /\ \A j \in 1..(Len(ls) - 1) : ~IsFenceLine(ls[j]) /\ ~IsQuotedFenceLine(ls[j])

\* The loop of parse_fenced_code_block runs for ever only at the end of the
\* input with no container open; a fenced code block in a block quote that
\* is never closed is popped with end equal to the input length.
FenceClosedAtEofInContainer ==
    /\ pc = "hang" => (spine # <<>> /\ Tag(nodes, spine[1]) = "FencedCodeBlock")
    /\ UnterminatedQuotedFence(Lines(text)) =>
          /\ pc \notin {"hang", "panic"}
          /\ FirstPassOver =>
                /\ FencedBlocks # {}
                /\ \A k \in FencedBlocks : Nd(nodes, k).end = Len(text)

C7_WitnessQuoted ==
    /\ FirstPassOver
    /\ UnterminatedFence(Lines(text))
    /\ Tag(nodes, 0) = "BlockQuote"
    /\ FencedBlocks # {}

\* C8: no Emphasis or Strong node is made from an opener run and a closer
\* run of which one can both open and close by its own flanking flags while
\* the sum of their counts at the time of the match is a multiple of 3.
C8_NoMultipleOfThreePair ==
    \A i \in 1..Len(matches) :
       ~ /\ matches[i].oown \/ matches[i].cboth
         /\ (matches[i].ocount + matches[i].ccount) % 3 = 0

\* The nodes reachable from the nodes of S by child and next links.
RECURSIVE Closure(_, _, _)
Closure(ns, S, n) ==
    LET T == S \cup { x \in 0..(Len(ns) - 1) :
                        \E k \in S : Nd(ns, k).child = x \/ Nd(ns, k).next = x }
    IN  IF n = 0 \/ T = S THEN S ELSE Closure(ns, T, n - 1)

\* The nodes below node k: its child chain and all that hangs from it.
Below(ns, k) ==
    IF Nd(ns, k).child = NIL \/ Nd(ns, k).child >= Len(ns) THEN {}
    ELSE Closure(ns, {Nd(ns, k).child}, Len(ns))

Links == { k \in 0..(Len(nodes) - 1) : Tag(nodes, k) = "Link" }

\* The link stack is empty after every link that is made, and no node of
\* the child chain of a Link node is itself a Link or a bracket that can
\* become one; the nodes below a block node of that chain are not covered.
LinkChainHasNoLink ==
    /\ \A i \in 1..Len(made) : made[i].stack = <<>>
    /\ \A k \in Links : \A n \in Range(Chain(nodes, Nd(nodes, k).child)) :
          Tag(nodes, n) \notin {"Link", "MaybeLinkOpen"}

\* C9: links never nest. No Start(Link) is emitted between a Start(Link) and
\* its End(Link); the link stack is empty after every link that is made; and
\* no node below a Link node is a Link or a bracket that can become one.
C9_LinksNeverNest ==
    /\ \A i, j \in 1..Len(events) :
          (i < j /\ IsStartOf(events[i], "Link") /\ IsStartOf(events[j], "Link"))
             => \E k \in (i + 1)..(j - 1) :
                   events[k].kind = "End" /\ events[k].node = events[i].node
    /\ \A i \in 1..Len(made) : made[i].stack = <<>>
    /\ \A k \in Links : \A n \in Below(nodes, k) :
          Tag(nodes, n) \notin {"Link", "MaybeLinkOpen"}

\* The run is done on a paragraph where a link was made inside an outer pair
\* of brackets that is followed by a link destination: the outer brackets
\* have stayed text on both sides of the link.
C9_Witness ==
    /\ pc = "done"
    /\ \E i \in 1..Len(made) : \E k, j \in 0..(Len(nodes) - 1) :
          /\ k < made[i].node /\ made[i].node < j
          /\ Tag(nodes, k) = "Text" /\ B(text, Nd(nodes, k).start) = "["
          /\ Tag(nodes, j) = "Text" /\ B(text, Nd(nodes, j).start) = "]"
          /\ Nd(nodes, j).end < Len(text) /\ B(text, Nd(nodes, j).end) = "("
          /\ Emitted("Start", made[i].node) /\ Emitted("Text", j)

\* The offsets of the letters of the text that lie in a top-level paragraph.
\* A letter is never markup in the inputs of this model.
LetterOffsets ==
    { o \in 0..(Len(text) - 1) :
        /\ B(text, o) \in {"a", "b"}
        /\ \E k \in Range(Chain(nodes, 0)) :
              /\ Tag(nodes, k) = "Paragraph"
              /\ Nd(nodes, k).start <= o /\ o < Nd(nodes, k).end }

\* The events that carry a slice of the input.
SliceEvents ==
    { i \in 1..Len(events) : events[i].kind \in {"Text", "InlineHtml"}
                             /\ events[i].lit = <<>> }

\* C10: once the run is done every letter of a paragraph lies in the slice
\* of exactly one Text or InlineHtml event, and the slices of successive
\* events are in strictly increasing source order.
C10_TextFidelity ==
    pc = "done" =>
       /\ \A o \in LetterOffsets :
             Cardinality({ i \in SliceEvents :
                             events[i].start <= o /\ o < events[i].end }) = 1
       /\ \A i, j \in SliceEvents : i < j => events[i].end <= events[j].start

(***************************************************************************)
(* Invariants of the tree.                                                 *)
(***************************************************************************)
\* The indices of the arena.
NodeIds == 0 .. (Len(nodes) - 1)

\* C11: in every state of the tree, for every node A whose next link is B,
\* the end of A is at most the start of B.
C11_OffsetMonotone ==
    \A a \in NodeIds :
        LET b == Nd(nodes, a).next
        IN  b # NIL => Nd(nodes, a).end <= Nd(nodes, b).start

\* An inline HTML tag was resolved that ends inside the text node after it
\* (the first pass starts no node after a > byte): the tag's end and the
\* start of the rest of that text node are the same offset.
C11_Witness ==
    /\ pc = "done"
    /\ \E a \in NodeIds :
           LET b == Nd(nodes, a).next
           IN  /\ Tag(nodes, a) = "InlineHtml"
               /\ b # NIL
               /\ Tag(nodes, b) = "Text"
               /\ Nd(nodes, b).start = Nd(nodes, a).end
               /\ B(text, Nd(nodes, b).start - 1) = ">"
               /\ B(text, Nd(nodes, b).start) = "a"

\* The nodes of the tree: those reachable from the root by child and next
\* links.
TreeNodes == IF nodes = <<>> THEN {} ELSE Closure(nodes, {0}, Len(nodes))

\* C11, for the nodes of the tree: in every state, for every node A that is
\* reachable from the root and whose next link is B, the end of A is at
\* most the start of B. (A paragraph that tight-list surgery took out of
\* the tree keeps its next link.)
C11_OffsetMonotoneInTree ==
    \A a \in TreeNodes :
        LET b == Nd(nodes, a).next
        IN  b # NIL => Nd(nodes, a).end <= Nd(nodes, b).start

\* The run is done on a tight list item where a link was made at the end
\* of a paragraph that an ATX heading follows: the Link node is in the
\* tree, its next link is the Header, and the start of the Header was
\* moved back to the end of the link destination.
C11_WitnessInTree ==
    /\ pc = "done"
    /\ \E a \in TreeNodes :
           LET b == Nd(nodes, a).next
           IN  /\ Tag(nodes, a) = "Link"
               /\ b # NIL
               /\ Tag(nodes, b) = "Header"
               /\ B(text, Nd(nodes, b).start) = "\n"
               /\ B(text, Nd(nodes, b).start - 1) = ")"

\* Node c lies within the extent of node p.
Within(c, p) ==
    /\ Nd(nodes, p).start <= Nd(nodes, c).start
    /\ Nd(nodes, c).end <= Nd(nodes, p).end

\* The nodes of the child chain of p.
Children(p) == Range(Chain(nodes, Nd(nodes, p).child))

\* C12: once the first pass has finished, every node of the child chain of
\* a node P of the tree lies within the extent of P: P.start <= C.start and
\* C.end <= P.end; also when P is a Link, Code, Emphasis or Strong node made
\* by inline resolution.
C12_Containment ==
    pc \in {"iter", "done"} =>
        \A p \in TreeNodes : \A c \in Children(p) : Within(c, p)

\* C12 for every parent but a Link.
C12_ContainmentExceptLinks ==
    pc \in {"iter", "done"} =>
        \A p \in TreeNodes :
            Tag(nodes, p) # "Link" => \A c \in Children(p) : Within(c, p)

\* FirstPass::run has just returned: no call of next has been made yet.
FirstPassReturned == pc = "iter" /\ events = <<>> /\ inline_at = <<>>

\* The nodes of the tree without children that are not synthesized items.
Leaves ==
    { k \in TreeNodes :
        /\ Nd(nodes, k).child = NIL
        /\ Tag(nodes, k) \notin {"SynthesizeText", "SynthesizeNewLine"} }

\* C13: when FirstPass::run returns, every node without children that is not
\* a synthesized item has start < end; an ATX heading with empty content and
\* the last child of an ATX heading after trimming are such nodes.
C13_LeavesNonEmpty ==
    FirstPassReturned =>
        \A k \in Leaves : Nd(nodes, k).start < Nd(nodes, k).end

\* C13 for every leaf but the ATX headings without children and the last
\* children of ATX headings.
C13_LeavesNonEmptyExceptAtx ==
    FirstPassReturned =>
        \A k \in Leaves :
            \/ Nd(nodes, k).start < Nd(nodes, k).end
            \/ Tag(nodes, k) = "Header"
            \/ /\ Nd(nodes, k).next = NIL
               /\ \E h \in TreeNodes : Tag(nodes, h) = "Header" /\ k \in Children(h)

(***************************************************************************)
(* Termination.                                                            *)
(***************************************************************************)
\* C14: the first pass terminates. Every call of parse_block at an offset
\* below the length of the text returns an offset that is strictly greater
\* and at most the length of the text, so the loop of FirstPass::run ends;
\* and the tree that run returns, after its pops, has an empty spine.
C14_FirstPassTerminates ==
    [][ /\ ParseBlock => (pc' = "first_pass" /\ ix < ix' /\ ix' <= Len(text))
        /\ RunFinish =>
              /\ pc' = "iter"
              /\ pop_times(FirstPassState, Len(spine), ix).spine = <<>> ]_vars

\* C14 for the calls that do not panic: a call of parse_block that returns
\* gives a strictly greater offset, at most the length of the text, and
\* when the pops of run do not panic they leave an empty spine. (The call
\* that does not return is the loop of parse_fenced_code_block, see C7.)
C14_ProgressUnlessPanic ==
    [][ /\ ParseBlock =>
              \/ pc' \in {"panic", "hang"}
              \/ (pc' = "first_pass" /\ ix < ix' /\ ix' <= Len(text))
        /\ RunFinish =>
              \/ pc' = "panic"
              \/ /\ pc' = "iter"
                 /\ pop_times(FirstPassState, Len(spine), ix).spine = <<>> ]_vars

\* The number of child and next links that lead to node x from the nodes
\* of T.
InLinks(T, x) ==
    Cardinality({ k \in T : Nd(nodes, k).child = x })
        + Cardinality({ k \in T : Nd(nodes, k).next = x })

\* The child and next links form a tree: no link leads back to the root and
\* every other node of the tree is reached by exactly one link, so there is
\* no cycle and no node is reachable by two paths.
IsTree ==
    LET T == TreeNodes
    IN  \A x \in T : InLinks(T, x) = IF x = 0 THEN 0 ELSE 1

\* No node yields more than one Start or leaf event: two events of the same
\* node are its Start and, later, its End.
EventsOncePerNode ==
    \A i, j \in 1..Len(events) :
        (i < j /\ events[i].node = events[j].node)
            => (events[i].kind = "Start" /\ events[j].kind = "End")

\* The tree and the events between the calls of next: the links form a
\* tree, no node has yielded two Start or leaf events, and the events are at
\* most two for each node, so the calls that return an event are finitely
\* many.
IterationOk ==
    pc \in {"iter", "done"} =>
        /\ IsTree
        /\ EventsOncePerNode
        /\ Len(events) <= 2 * Len(nodes)

\* A call of next returned one more event, or it returned None with nothing
\* left to visit, so that every later call returns None as well.
NextReturned ==
    \/ pc' = "iter" /\ Len(events') = Len(events) + 1
    \/ pc' = "done" /\ cur' = NIL /\ spine' = <<>> /\ events' = events

\* C15: the event iterator terminates. The tree left by the first pass and
\* the tree after every call of next, with its inline resolutions and
\* tight-list surgeries, has no cycle and no node reachable by two paths; no
\* node yields more than one Start or leaf event; every call of next returns
\* an event or None, and None after finitely many calls and from then on.
C15_IteratorTerminates == []IterationOk /\ [][ParserNext => NextReturned]_vars

\* C15 for the calls of next that do not panic.
C15_TerminatesUnlessPanic ==
    []IterationOk /\ [][ParserNext => (pc' = "panic" \/ NextReturned)]_vars

(***************************************************************************)
(* Paragraphs: setext headers, lazy continuation lines, breaks.            *)
(***************************************************************************)
\* The start of the line that holds offset i.
RECURSIVE LineStartAt(_, _)
LineStartAt(t, i) ==
    IF i <= 0 \/ B(t, i - 1) = "\n" THEN i ELSE LineStartAt(t, i - 1)

\* The number of spaces at offset i.
RECURSIVE SpacesAt(_, _)
SpacesAt(t, i) == IF i < Len(t) /\ B(t, i) = " " THEN 1 + SpacesAt(t, i + 1) ELSE 0

\* The elements of a set of numbers in ascending order.
RECURSIVE Ascending(_)
Ascending(S) ==
    IF S = {} THEN <<>>
    ELSE LET m == CHOOSE x \in S : \A y \in S : x <= y
         IN  <<m>> \o Ascending(S \ {m})

\* The block quotes and list items around node k, outermost first (an outer
\* container is created before the containers in it).
Containers(k) ==
    Ascending({ p \in TreeNodes :
                  /\ Tag(nodes, p) \in {"BlockQuote", "ListItem"}
                  /\ k \in Below(nodes, p) })

\* The offset after the markers of the containers cs[k..] on the line read
\* from offset i: a > with one following space for a block quote, the
\* indent of a list item in spaces; -1 when the line lacks one of them.
RECURSIVE AfterMarkers(_, _, _)
AfterMarkers(cs, k, i) ==
    IF k > Len(cs) THEN i
    ELSE IF Tag(nodes, cs[k]) = "BlockQuote"
    THEN IF i < Len(text) /\ B(text, i) = ">"
         THEN AfterMarkers(cs, k + 1,
                  IF i + 1 < Len(text) /\ B(text, i + 1) = " " THEN i + 2 ELSE i + 1)
         ELSE -1
    ELSE IF SpacesAt(text, i) >= Nd(nodes, cs[k]).body.indent
         THEN AfterMarkers(cs, k + 1, i + Nd(nodes, cs[k]).body.indent)
         ELSE -1

\* The headers made from a paragraph by a setext underline: those that do
\* not start at a hash sign.
SetextHeaders ==
    { h \in TreeNodes : Tag(nodes, h) = "Header" /\ B(text, Nd(nodes, h).start) # "#" }

\* The last line of the header h, its underline, has the markers of every
\* container around h and then fewer than 4 spaces before the underline.
UnderlineMatches(h) ==
    LET a == AfterMarkers(Containers(h), 1, LineStartAt(text, Nd(nodes, h).end - 1))
    IN  /\ a # -1
        /\ SpacesAt(text, a) < 4
        /\ a + SpacesAt(text, a) < Len(text)
        /\ B(text, a + SpacesAt(text, a)) \in {"=", "-"}

\* C16: parse_paragraph rewrites a paragraph to a Header only when the
\* underline matches every container on the spine and is indented fewer than
\* 4 spaces after the container markers; an underline that reaches the
\* paragraph as a lazy continuation line never makes it a header.
C16_SetextNeedsContainers ==
    pc \in {"iter", "done"} => \A h \in SetextHeaders : UnderlineMatches(h)

\* A paragraph in a block quote took a line of equal signs without the
\* marker of the quote as text, and became a header at a later underline
\* that has the marker.
C16_Witness ==
    /\ pc = "done"
    /\ \E h \in SetextHeaders :
          /\ Containers(h) # <<>>
          /\ Tag(nodes, Containers(h)[1]) = "BlockQuote"
          /\ \E c \in Children(h) :
                /\ Tag(nodes, c) = "Text"
                /\ B(text, Nd(nodes, c).start) = "="
                /\ LineStartAt(text, Nd(nodes, c).start) = Nd(nodes, c).start

\* The offsets at which a line of the text starts.
LineStarts == { i \in 0..(Len(text) - 1) : i = 0 \/ B(text, i - 1) = "\n" }

\* The block quotes and list items whose extent holds the extent of node k,
\* outermost first. (Tight-list surgery takes a paragraph out of the tree,
\* its extent stays.)
ContainersAround(k) ==
    Ascending({ c \in NodeIds :
                  /\ Tag(nodes, c) \in {"BlockQuote", "ListItem"}
                  /\ Nd(nodes, c).start <= Nd(nodes, k).start
                  /\ Nd(nodes, k).end <= Nd(nodes, c).end })

\* How many of the containers cs[k..] the line read from offset i matches,
\* one after the other, and the offset after their markers.
RECURSIVE Matched(_, _, _)
Matched(cs, k, i) ==
    IF k > Len(cs) THEN [n |-> 0, off |-> i]
    ELSE LET one == AfterMarkers(<<cs[k]>>, 1, i)
         IN  IF one = -1 THEN [n |-> 0, off |-> i]
             ELSE [Matched(cs, k + 1, one) EXCEPT !.n = @ + 1]

\* The line that starts at s matches fewer containers than there are
\* around the paragraph p.
IsLazyLine(p, s) == Matched(ContainersAround(p), 1, s).n < Len(ContainersAround(p))

\* The line that starts at s, read after the markers it matches, is indented
\* fewer than 4 spaces and starts a block that interrupts a paragraph.
InterruptsAt(p, s) ==
    LET off == Matched(ContainersAround(p), 1, s).off
    IN  /\ SpacesAt(text, off) < 4
        /\ scan_paragraph_interrupt(text, off + SpacesAt(text, off))

\* The line that starts at s, read after the markers it matches, is a block
\* interrupter: a blank line, that is a line of spaces only however many,
\* or the start of an interrupting block indented fewer than 4 spaces.
IsInterrupter(p, s) ==
    LET off == Matched(ContainersAround(p), 1, s).off
        e == off + SpacesAt(text, off)
    IN  \/ e >= Len(text)
        \/ B(text, e) \in {"\n", "\r"}
        \/ InterruptsAt(p, s)

\* The nodes made by parse_paragraph: paragraphs and setext headers.
ParagraphNodes ==
    { p \in NodeIds :
        \/ Tag(nodes, p) = "Paragraph"
        \/ Tag(nodes, p) = "Header" /\ B(text, Nd(nodes, p).start) # "#" }

\* The starts of the lines of p after its first: its continuation lines
\* and, for a header, its underline.
LaterLines(p) ==
    { s \in LineStarts : Nd(nodes, p).start < s /\ s < Nd(nodes, p).end }

\* The starts of the continuation lines of p.
ContinuationLines(p) ==
    IF Tag(nodes, p) = "Header"
    THEN { s \in LaterLines(p) : s < LineStartAt(text, Nd(nodes, p).end - 1) }
    ELSE LaterLines(p)

\* The break item that ends at offset s is in the child chain of p.
BreakBefore(p, s) ==
    \E c \in Children(p) :
        /\ Tag(nodes, c) \in {"SoftBreak", "HardBreak"}
        /\ Nd(nodes, c).end = s

\* The lazy continuation of parse_paragraph with the test the code makes:
\* a line that matches fewer containers than the spine holds ends the
\* paragraph only when it is indented fewer than 4 spaces and
\* scan_paragraph_interrupt holds after its indent; a blank line of 4 or
\* more spaces is appended like a line of text.
LazyUnlessInterruptScanned ==
    FirstPassReturned =>
        \A p \in ParagraphNodes :
            /\ \A s \in ContinuationLines(p) :
                  /\ BreakBefore(p, s)
                  /\ IsLazyLine(p, s) => ~InterruptsAt(p, s)
            /\ ( /\ Tag(nodes, p) = "Paragraph"
                 /\ Nd(nodes, p).end < Len(text)
                 /\ IsLazyLine(p, Nd(nodes, p).end) )
               => ( /\ Nd(nodes, p).end \in LineStarts
                    /\ InterruptsAt(p, Nd(nodes, p).end) )

\* C17: a line after a paragraph line that matches fewer containers than
\* the spine holds is appended to the same paragraph, after the break item
\* of the line before it, unless it is a block interrupter (a blank line
\* among them): no paragraph ends before such a line that is no
\* interrupter, and every continuation line follows a break item. A line
\* that is an interrupter is no continuation line: the paragraph ends at
\* the start offset of that line. (Read when the first pass has returned:
\* the inline pass may take a break item into a code span.)
C17_LazyContinuation ==
    FirstPassReturned =>
        \A p \in ParagraphNodes :
            /\ \A s \in ContinuationLines(p) :
                  /\ BreakBefore(p, s)
                  /\ IsLazyLine(p, s) => ~IsInterrupter(p, s)
            /\ ( /\ Tag(nodes, p) = "Paragraph"
                 /\ Nd(nodes, p).end < Len(text)
                 /\ IsLazyLine(p, Nd(nodes, p).end) )
               => ( /\ Nd(nodes, p).end \in LineStarts
                    /\ IsInterrupter(p, Nd(nodes, p).end) )

\* A paragraph in a container took a line without the container's marker
\* as a continuation line and ended at a later line without the marker
\* that interrupts it.
C17_Witness ==
    /\ FirstPassReturned
    /\ \E p \in ParagraphNodes :
          /\ Tag(nodes, p) = "Paragraph"
          /\ ContainersAround(p) # <<>>
          /\ \E s \in ContinuationLines(p) : IsLazyLine(p, s) /\ B(text, s) = "a"
          /\ Nd(nodes, p).end < Len(text)
          /\ IsLazyLine(p, Nd(nodes, p).end)

\* ---------------------------------------------------------------------
\* C18  Code blocks and HTML blocks are never continued lazily.

\* The indented code blocks, fenced code blocks and HTML blocks.
RawBlocks ==
    { b \in NodeIds :
        Tag(nodes, b) \in {"IndentCodeBlock", "FencedCodeBlock", "HtmlBlock"} }

\* The line that starts at s holds something else than spaces.
LineNotBlank(s) ==
    LET e == s + SpacesAt(text, s)
    IN  e < Len(text) /\ B(text, e) \notin {"\n", "\r"}

\* A node other than b and its children starts in the line that starts at s.
BlockStartsInLine(b, s) ==
    \E n \in NodeIds \ ({b} \cup Children(b)) :
        /\ Nd(nodes, n).start >= s
        /\ LineStartAt(text, Nd(nodes, n).start) = s

\* C18: once the first pass has returned, no line inside an indented code
\* block, a fenced code block or an HTML block matches fewer containers than
\* the block has around it, every child of the block lies inside the block,
\* and a non-blank line with fewer containers that follows the block starts
\* a node of its own: the block was closed at that line and the line was
\* parsed again from its start.
C18_RawBlocksNotLazy ==
    FirstPassReturned =>
        \A b \in RawBlocks :
            /\ \A s \in LineStarts :
                   (Nd(nodes, b).start < s /\ s < Nd(nodes, b).end)
                       => ~IsLazyLine(b, s)
            /\ \A c \in Children(b) : Within(c, b)
            /\ (/\ Nd(nodes, b).end \in LineStarts
                /\ IsLazyLine(b, Nd(nodes, b).end)
                /\ LineNotBlank(Nd(nodes, b).end))
                   => BlockStartsInLine(b, Nd(nodes, b).end)

\* A block of kind tag with content, inside a block quote, is followed by
\* a line without the marker of the quote, which a paragraph takes.
RawBlockClosedByLine(tag) ==
    \E b \in RawBlocks :
        /\ Tag(nodes, b) = tag
        /\ ContainersAround(b) # <<>>
        /\ Children(b) # {}
        /\ Nd(nodes, b).end \in LineStarts
        /\ IsLazyLine(b, Nd(nodes, b).end)
        /\ \E n \in NodeIds : /\ Tag(nodes, n) = "Paragraph"
                              /\ Nd(nodes, n).start = Nd(nodes, b).end

C18_Witness == FirstPassReturned /\ RawBlockClosedByLine("FencedCodeBlock")

\* ---------------------------------------------------------------------
\* C19  Setext headers and trailing breaks.

\* The last child of p in the arena, NIL if p has none.
LastChildOf(p) ==
    LET ch == Chain(nodes, Nd(nodes, p).child)
    IN  IF ch = <<>> THEN NIL ELSE ch[Len(ch)]

\* The number of spaces that end at offset e of the text.
RECURSIVE SpacesBefore(_, _)
SpacesBefore(t, e) == IF e > 0 /\ B(t, e - 1) = " " THEN 1 + SpacesBefore(t, e - 1) ELSE 0

\* The offset of the line ending of the last content line of the setext
\* header h: the byte before the start of its underline.
LastLineEnding(h) == LineStartAt(text, Nd(nodes, h).end - 1) - 1

\* The last content line of h ends in a backslash that is not itself escaped.
EndsInBackslash(h) ==
    LET e == LastLineEnding(h)
    IN  /\ e >= 1
        /\ B(text, e - 1) = "\\"
        /\ ~(e >= 2 /\ B(text, e - 2) = "\\")

\* The last child of p is a break item.
EndsWithBreak(p) ==
    /\ LastChildOf(p) # NIL
    /\ Tag(nodes, LastChildOf(p)) \in {"SoftBreak", "HardBreak"}

\* The last child of the setext header h is what the claim says: a one-byte
\* Text at the backslash that ended the last content line, or else the last
\* item of that line, ending where its content ends (before two or more
\* trailing spaces), and no break item.
SetextLastChildOk(h) ==
    LET e == LastLineEnding(h)
        c == LastChildOf(h)
    IN  /\ c # NIL
        /\ IF EndsInBackslash(h)
           THEN /\ Tag(nodes, c) = "Text"
                /\ Nd(nodes, c).start = e - 1
                /\ Nd(nodes, c).end = e
           ELSE /\ ~EndsWithBreak(h)
                /\ Nd(nodes, c).end =
                       IF SpacesBefore(text, e) >= 2 THEN e - SpacesBefore(text, e) ELSE e

\* C19, first part: when the first pass has returned, the break item of the
\* last content line of a setext header is not among its children; a hard
\* break written with a backslash has left a one-byte Text at the backslash.
C19_SetextBreakDropped ==
    FirstPassReturned =>
        \A h \in ParagraphNodes : Tag(nodes, h) = "Header" => SetextLastChildOk(h)

\* C19: in addition, the last child of every Paragraph and of every setext
\* Header is never a SoftBreak or a HardBreak.
C19_NoTrailingBreak ==
    FirstPassReturned =>
        \A p \in ParagraphNodes :
            /\ Tag(nodes, p) = "Header" => SetextLastChildOk(p)
            /\ ~EndsWithBreak(p)

\* ---------------------------------------------------------------------
\* C20  Closing code fences.

\* The length of the run of byte c of the text from offset i.
RECURSIVE RunAt(_, _)
RunAt(i, c) == IF i < Len(text) /\ B(text, i) = c THEN 1 + RunAt(i + 1, c) ELSE 0

\* The indent of the opening fence of b: the spaces that end at its start.
OpeningIndent(b) == SpacesBefore(text, Nd(nodes, b).start)

\* The lines of b after its opening line.
FencedLines(b) ==
    { s \in LineStarts : Nd(nodes, b).start < s /\ s < Nd(nodes, b).end }

\* The offset after the markers of the containers of b in the line at s.
PastMarkers(b, s) == Matched(ContainersAround(b), 1, s).off

\* The line at s was appended to b as content: a child of b starts in it.
IsContentLine(b, s) ==
    \E c \in Children(b) : LineStartAt(text, Nd(nodes, c).start) = s

\* The line at s ended b as its closing fence: it lies in the extent of b
\* and is not content.
IsClosingLine(b, s) == s \in FencedLines(b) /\ ~IsContentLine(b, s)

\* From offset i the line is a run of at least as many fence characters as
\* the opening fence of b has, followed only by spaces.
IsFenceRun(b, i) ==
    LET c == B(text, Nd(nodes, b).start)
        n == RunAt(i, c)
        e == i + n + RunAt(i + n, " ")
    IN  /\ n >= RunAt(Nd(nodes, b).start, c)
        /\ e < Len(text) => B(text, e) \in {"\n", "\r"}

\* C20: when the first pass has returned, a line that ended a fenced code
\* block as its closing fence is indented fewer than 4 spaces after the
\* container markers and is a long enough run of the fence character
\* followed only by spaces; a line of the block indented 4 or more spaces
\* is content.
C20_ClosingFence ==
    FirstPassReturned =>
        \A b \in FencedBlocks : \A s \in FencedLines(b) :
            /\ IsClosingLine(b, s) =>
                   /\ SpacesAt(text, PastMarkers(b, s)) < 4
                   /\ IsFenceRun(b, PastMarkers(b, s) + SpacesAt(text, PastMarkers(b, s)))
            /\ SpacesAt(text, PastMarkers(b, s)) >= 4 => IsContentLine(b, s)

\* What the loop does: the 4 spaces are counted after the indent of the
\* opening fence has been taken off the line.
C20_ClosingFenceAfterIndent ==
    FirstPassReturned =>
        \A b \in FencedBlocks : \A s \in FencedLines(b) :
            /\ IsClosingLine(b, s) =>
                   /\ SpacesAt(text, PastMarkers(b, s)) < 4 + OpeningIndent(b)
                   /\ IsFenceRun(b, PastMarkers(b, s) + SpacesAt(text, PastMarkers(b, s)))
            /\ SpacesAt(text, PastMarkers(b, s)) >= 4 + OpeningIndent(b)
                   => IsContentLine(b, s)

\* ---------------------------------------------------------------------
\* C21  Trailing blank lines of an indented code block.

\* The indented code blocks.
IndentBlocks == { b \in NodeIds : Tag(nodes, b) = "IndentCodeBlock" }

\* The offset after the line that starts at s: after its line feed, or the
\* end of the text.
RECURSIVE LineEndFrom(_)
LineEndFrom(i) ==
    IF i >= Len(text) THEN Len(text)
    ELSE IF B(text, i) = "\n" THEN i + 1 ELSE LineEndFrom(i + 1)

\* From offset i to its line ending the line holds only spaces and tabs.
RECURSIVE BlankFrom(_)
BlankFrom(i) ==
    \/ i >= Len(text)
    \/ B(text, i) \in {"\n", "\r"}
    \/ B(text, i) \in {" ", "\t"} /\ BlankFrom(i + 1)

\* The line at s, read after the markers of the containers of b, is blank.
BlankInBlock(b, s) == BlankFrom(PastMarkers(b, s))

\* The line at s would go on the indented code block b: it has the markers
\* of every container of b and then 4 spaces, and is not blank.
GoesOn(b, s) ==
    /\ ~IsLazyLine(b, s)
    /\ ~BlankInBlock(b, s)
    /\ SpacesAt(text, PastMarkers(b, s)) >= 4

\* The lines from offset e up to, not including, the line at s are blank
\* lines that have the markers of every container of b.
OnlyBlankBetween(b, e, s) ==
    \A u \in LineStarts : (e <= u /\ u < s) => BlankInBlock(b, u) /\ ~IsLazyLine(b, u)

\* The line that holds the last child of b.
LastChildLine(b) == LineStartAt(text, Nd(nodes, LastChildOf(b)).end - 1)

\* C21: when the first pass has returned, the last child of an indented
\* code block lies in a line that is not blank, the block ends just after
\* that line, every line inside the block (blank ones between non-blank
\* ones included) has a child of the block, and no line that would go on
\* the block follows it after blank lines only.
C21_TrailingBlankTrimmed ==
    FirstPassReturned =>
        \A b \in IndentBlocks :
            /\ LastChildOf(b) # NIL
            /\ ~BlankInBlock(b, LastChildLine(b))
            /\ Nd(nodes, b).end = LineEndFrom(LastChildLine(b))
            /\ Nd(nodes, b).end = Nd(nodes, LastChildOf(b)).end
            /\ \A s \in LineStarts :
                   (Nd(nodes, b).start < s /\ s < Nd(nodes, b).end)
                       => \E c \in Children(b) : LineStartAt(text, Nd(nodes, c).start) = s
            /\ \A s \in LineStarts :
                   (Nd(nodes, b).end <= s /\ OnlyBlankBetween(b, Nd(nodes, b).end, s))
                       => ~GoesOn(b, s)

\* An indented code block is followed by a blank line that was cut from
\* its chain: the Text of that line is in the arena after the last child of
\* the block and no node links to it.
C21_Witness ==
    /\ FirstPassReturned
    /\ \E b \in IndentBlocks : \E n \in NodeIds :
          /\ n > LastChildOf(b)
          /\ Tag(nodes, n) = "Text"
          /\ Nd(nodes, n).start = Nd(nodes, b).end
          /\ BlankInBlock(b, Nd(nodes, n).start)
          /\ \A k \in NodeIds : Nd(nodes, k).next # n /\ Nd(nodes, k).child # n

\* An indented code block keeps a blank line between two lines of code.
C21_KeepsInnerBlank ==
    /\ FirstPassReturned
    /\ \E b \in IndentBlocks : \E s \in LineStarts :
          /\ Nd(nodes, b).start < s /\ s < Nd(nodes, b).end
          /\ BlankInBlock(b, s)

\* ---------------------------------------------------------------------
\* C22  Delimiter runs are consecutive arena nodes.

\* The iterator is at a marker node: the next call of next runs
\* handle_inline on the chain from cur.
AboutToResolve ==
    pc = "iter" /\ cur # NIL /\ cur < Len(nodes) /\ Tag(nodes, cur) \in InlineMarkers

\* The arena handle_emphasis starts on: after pass 1 from the cursor.
AfterPass1 == handle_inline_pass1(text, nodes, cur)

\* The nodes at which handle_emphasis, walking the chain from k, meets a
\* delimiter run: after a run it goes on at the next link of the run's last
\* node, found by index.
RECURSIVE RunVisits(_, _)
RunVisits(ns, k) ==
    IF k = NIL \/ k >= Len(ns) THEN {}
    ELSE IF Tag(ns, k) = "Inline"
    THEN {k} \cup (IF k + Nd(ns, k).body.count - 1 < Len(ns)
                   THEN RunVisits(ns, Nd(ns, k + Nd(ns, k).body.count - 1).next)
                   ELSE {})
    ELSE RunVisits(ns, Nd(ns, k).next)

\* The count nodes from index k are the one-byte Inline nodes of one run of
\* count delimiters, linked in index order, and the chain goes on, if it
\* does, at the index after them.
RunIsConsecutive(ns, k) ==
    LET c == Nd(ns, k).body.count
    IN  /\ c >= 1
        /\ k + c - 1 < Len(ns)
        /\ \A i \in 0..(c - 1) :
              /\ Tag(ns, k + i) = "Inline"
              /\ Nd(ns, k + i).body.count = c - i
              /\ Nd(ns, k + i).start = Nd(ns, k).start + i
              /\ Nd(ns, k + i).end = Nd(ns, k + i).start + 1
              /\ B(text, Nd(ns, k + i).start) = B(text, Nd(ns, k).start)
              /\ i < c - 1 => Nd(ns, k + i).next = k + i + 1
        /\ Nd(ns, k + c - 1).next \in {NIL, k + c}

\* C22: whenever handle_inline is about to run, every delimiter run that
\* handle_emphasis will visit after pass 1 is a sequence of consecutive
\* arena nodes linked in order, followed in the chain by the node at the
\* next index.
C22_RunsConsecutive ==
    AboutToResolve =>
        \/ AfterPass1.panic
        \/ \A k \in RunVisits(AfterPass1.nodes, cur) :
               RunIsConsecutive(AfterPass1.nodes, k)

\* Pass 1 has made a link, a code span or inline HTML in a chain that also
\* holds a run of two or more delimiters after it.
C22_Witness ==
    /\ AboutToResolve
    /\ ~AfterPass1.panic
    /\ AfterPass1.made # <<>>
    /\ \E k \in RunVisits(AfterPass1.nodes, cur) :
          /\ Nd(AfterPass1.nodes, k).body.count >= 2
          /\ \E j \in Range(Chain(AfterPass1.nodes, cur)) :
                /\ j < k
                /\ Tag(AfterPass1.nodes, j) \in {"Link", "Code", "InlineHtml"}

\* ---------------------------------------------------------------------
\* C23  Code spans close at the first run of the same length.

\* One iteration of the loop of handle_inline_pass1 from the state st.
Pass1Step(t, st) ==
    LET tg == Tag(st.nodes, st.cur)
    IN  IF tg = "MaybeHtml"
        THEN pass1_maybe_html(st, scan_inline_html(t, st.nodes,
                 InlineScanner_new(st.nodes, Nd(st.nodes, st.cur).next)))
        ELSE IF tg = "MaybeCode" THEN pass1_maybe_code(t, st)
        ELSE IF tg = "MaybeLinkOpen"
        THEN [st EXCEPT !.nodes[st.cur + 1].body = [tag |-> "Text"],
                        !.link_stack = Append(@, st.cur),
                        !.prev = st.cur,
                        !.cur = Nd(st.nodes, st.cur).next]
        ELSE IF tg = "MaybeLinkClose"
        THEN pass1_link_close(st, scan_inline_link(t, st.nodes,
                 InlineScanner_new(st.nodes, Nd(st.nodes, st.cur).next)))
        ELSE [st EXCEPT !.prev = st.cur, !.cur = Nd(st.nodes, st.cur).next]

\* The states of the loop of handle_inline_pass1 from st, in order.
RECURSIVE Pass1Trace(_, _)
Pass1Trace(t, st) ==
    IF st.cur = NIL \/ st.panic THEN <<st>>
    ELSE <<st>> \o Pass1Trace(t, Pass1Step(t, st))

\* The loop states of the call of handle_inline_pass1 that is about to run.
Pass1States ==
    Pass1Trace(text, [nodes |-> nodes, cur |-> cur, prev |-> NIL,
                      link_stack |-> <<>>, panic |-> FALSE, made |-> <<>>])

\* The position in the chain ch, after its first node, of the first
\* MaybeCode run of n backticks; 0 if there is none.
RECURSIVE FirstSameRun(_, _, _, _)
FirstSameRun(ns, ch, i, n) ==
    IF i > Len(ch) THEN 0
    ELSE IF Tag(ns, ch[i]) = "MaybeCode" /\ Nd(ns, ch[i]).body.count = n THEN i
    ELSE FirstSameRun(ns, ch, i + 1, n)

\* The step from loop state a to loop state b, a at a MaybeCode node, does
\* what the claim says.
CodeStepOk(a, b) ==
    LET ns == a.nodes
        k == a.cur
        ch == Chain(ns, k)
        i == FirstSameRun(ns, ch, 2, Nd(ns, k).body.count)
        between == { ch[j] : j \in 2..(i - 1) }
        kids == Range(Chain(b.nodes, Nd(b.nodes, k).child))
        old == 0..(Len(ns) - 1)
    IN  IF i = 0
        THEN /\ b.nodes = [ns EXCEPT ![k + 1].body = [tag |-> "Text"]]
             /\ b.cur = Nd(ns, k).next
        ELSE /\ Tag(b.nodes, k) = "Code"
             /\ Nd(b.nodes, k).start = Nd(ns, k).start
             /\ Nd(b.nodes, k).end = Nd(ns, ch[i]).end
             /\ Nd(b.nodes, k).next = Nd(ns, ch[i]).next
             /\ b.cur = Nd(ns, ch[i]).next
             /\ between # {}
             /\ between \ {ch[2]} \subseteq kids
             /\ kids \cap old \subseteq between
             /\ \A c \in kids : Tag(b.nodes, c) \in {"Text", "SynthesizeText"}
             /\ \A c \in between :
                    Tag(ns, c) = "MaybeCode" => Tag(b.nodes, c) = "Text"
             /\ \A c \in old \ (between \cup {k}) : Nd(b.nodes, c) = Nd(ns, c)

\* C23: in every call of handle_inline_pass1 the iterator makes, each step
\* at a MaybeCode(n) node makes it a Code node that ends where the first
\* later MaybeCode(n) of the chain ends, goes on after that node, and has
\* the nodes between as children, runs of other lengths among them as
\* Text; without such a node it becomes Text and nothing else changes.
C23_CodeSpanCloser ==
    AboutToResolve =>
        /\ Pass1States[Len(Pass1States)] = AfterPass1
        /\ \A j \in 1..(Len(Pass1States) - 1) :
               (/\ Tag(Pass1States[j].nodes, Pass1States[j].cur) = "MaybeCode"
                /\ ~Pass1States[j + 1].panic)
                   => CodeStepOk(Pass1States[j], Pass1States[j + 1])

\* A code span was closed by the second later run, the first one having
\* another length, and a run after the span stayed unmatched.
C23_Witness ==
    /\ AboutToResolve
    /\ \E j \in 1..(Len(Pass1States) - 1) :
          /\ Tag(Pass1States[j].nodes, Pass1States[j].cur) = "MaybeCode"
          /\ Tag(Pass1States[j + 1].nodes, Pass1States[j].cur) = "Code"
          /\ \E c \in Range(Chain(Pass1States[j + 1].nodes,
                                  Nd(Pass1States[j + 1].nodes, Pass1States[j].cur).child)) :
                c < Len(nodes) /\ Tag(Pass1States[j].nodes, c) = "MaybeCode"

\* ---------------------------------------------------------------------
\* C24  The nodes made by one emphasis match.

\* The t-th node made by the match mt, counted from the outermost, 0-based:
\* Strong nodes take two delimiters each, an Emphasis node one.
WrapNode(mt, t) == mt.first + 2 * t

\* The number of nodes the match mt makes.
WrapCount(mt) == (mt.match_count \div 2) + (mt.match_count % 2)

\* The last node of the sibling chain that starts at k.
LastOfChain(ns, k) == Chain(ns, k)[Len(Chain(ns, k))]

\* The nodes made by the match mt are floor(m/2) Strong nodes and then
\* m mod 2 Emphasis nodes, each the only child of the one before.
WrapNested(mt) ==
    \A t \in 0..(WrapCount(mt) - 1) :
        /\ Tag(nodes, WrapNode(mt, t)) =
               (IF t < mt.match_count \div 2 THEN "Strong" ELSE "Emphasis")
        /\ t > 0 => /\ Nd(nodes, WrapNode(mt, t - 1)).child = WrapNode(mt, t)
                    /\ Nd(nodes, WrapNode(mt, t)).next = NIL

\* The child chain of the innermost node of mt is what lay between the two
\* runs: it starts at the node after the opener run, at the byte after the
\* run, holds only nodes between the runs, and ends where the closer starts
\* (when its last node is a leaf: the extents of Link, Strong and Emphasis
\* nodes are another matter).
WrapContent(mt) ==
    LET inner == WrapNode(mt, WrapCount(mt) - 1)
        c == Nd(nodes, inner).child
        open_end == Nd(nodes, mt.opener).start + mt.ocount
        close_start == Nd(nodes, mt.closer).start
    IN  /\ c = mt.opener + mt.ocount
        /\ c < mt.closer
        /\ Nd(nodes, c).start = open_end
        /\ \A k \in Range(Chain(nodes, c)) :
               /\ mt.opener + mt.ocount <= k /\ k < mt.closer
               /\ open_end <= Nd(nodes, k).start
               /\ Nd(nodes, k).end <= close_start
        /\ Tag(nodes, LastOfChain(nodes, c)) \notin {"Link", "Strong", "Emphasis"}
               => Nd(nodes, LastOfChain(nodes, c)).end = close_start

\* When match i leaves some of its closer run, the match after it in the
\* log, if made by what is left of the run, was made on the count reduced by
\* the match length, and so is the opener that remainder may become.
CloserReduced(i) ==
    LET mt == matches[i]
    IN  /\ mt.match_count = Min2(mt.ccount, mt.ocount)
        /\ mt.first = mt.opener + mt.ocount - mt.match_count
        /\ (/\ mt.ccount > mt.match_count
            /\ i < Len(matches)
            /\ matches[i + 1].closer = mt.closer + mt.match_count)
               => matches[i + 1].ccount = mt.ccount - mt.match_count
        /\ \A j \in (i + 1)..Len(matches) :
               (/\ mt.ccount > mt.match_count
                /\ matches[j].opener = mt.closer + mt.match_count)
                      => matches[j].ocount <= mt.ccount - mt.match_count

\* C24: every match of length m = min(closer count, opener count) made
\* floor(m/2) Strong nodes and m mod 2 Emphasis nodes, nested with the
\* Strong nodes outermost, the innermost holding the content between the
\* two runs, and what is left of the closer goes on with its count less m.
C24_MatchNodes ==
    \A i \in 1..Len(matches) :
        /\ WrapNested(matches[i])
        /\ WrapContent(matches[i])
        /\ CloserReduced(i)

\* A match of three delimiters made a Strong node around an Emphasis node,
\* and a closer run went on to a second match with what was left of it.
C24_Witness ==
    /\ \E i \in 1..Len(matches) : matches[i].match_count = 3
    /\ \E i \in 1..(Len(matches) - 1) :
          /\ matches[i + 1].closer = matches[i].closer + matches[i].match_count
          /\ matches[i].ccount > matches[i].match_count

\* ---------------------------------------------------------------------
\* C25  What is left of an opener after a match.

\* Match j is the first match after match i made with the same opener run.
NextWithOpener(i, j) ==
    /\ i < j
    /\ matches[j].opener = matches[i].opener
    /\ \A k \in (i + 1)..(j - 1) : matches[k].opener # matches[i].opener

\* The opener of match i is matched again only if match i left some of it,
\* and then with its count less the match length.
OpenerCountReduced(i) ==
    \A j \in 1..Len(matches) :
        NextWithOpener(i, j) =>
            /\ matches[i].ocount > matches[i].match_count
            /\ matches[j].ocount = matches[i].ocount - matches[i].match_count

\* C25: an opener that a match consumed in part is found on the stack by
\* its next match with the same start node, its count less the match
\* length and the both flag it had before; an opener consumed whole is
\* never matched again.
C25_OpenerRemainder ==
    \A i \in 1..Len(matches) :
        /\ OpenerCountReduced(i)
        /\ \A j \in 1..Len(matches) :
               NextWithOpener(i, j) => matches[j].oboth = matches[i].oboth

\* The same without the both flag.
C25_RemainderCount == \A i \in 1..Len(matches) : OpenerCountReduced(i)

\* An opener run was matched in part and matched again by a later closer.
C25_Rematched ==
    \E i, j \in 1..Len(matches) :
        NextWithOpener(i, j) /\ matches[j].closer # matches[i].closer + matches[i].match_count

\* ---------------------------------------------------------------------
\* C26  The end offsets of Strong and Emphasis nodes.

\* The offset after the closer delimiters that close the t-th node of the
\* match mt, counted from the outermost: the delimiters of the closer are
\* used innermost first, so the outermost node ends after all of them.
CloserEnd(mt, t) == Nd(nodes, mt.closer).start + mt.match_count - 2 * t

\* C26: for every match, the outermost node made ends at the closer's start
\* offset plus the match length, and every nested node ends after the
\* closer delimiters that close it.
C26_WrapEnds ==
    \A i \in 1..Len(matches) : \A t \in 0..(WrapCount(matches[i]) - 1) :
        Nd(nodes, WrapNode(matches[i], t)).end = CloserEnd(matches[i], t)

\* What the loop writes: the end of the closer node at index end after
\* end -= inc, which for a Strong node is the first of its two closing
\* delimiters.
C26_WrapEndsAsWritten ==
    \A i \in 1..Len(matches) : \A t \in 0..(WrapCount(matches[i]) - 1) :
        Nd(nodes, WrapNode(matches[i], t)).end =
            IF Tag(nodes, WrapNode(matches[i], t)) = "Strong"
            THEN CloserEnd(matches[i], t) - 1
            ELSE CloserEnd(matches[i], t)

\* ---------------------------------------------------------------------
\* C27  Emphasis spans nest.

\* The Strong and Emphasis nodes of the tree.
EmphasisNodes == { k \in TreeNodes : Tag(nodes, k) \in {"Strong", "Emphasis"} }

\* The extents of x and y are apart, or one lies within the other.
NestedOrDisjoint(x, y) ==
    \/ Nd(nodes, x).end <= Nd(nodes, y).start
    \/ Nd(nodes, y).end <= Nd(nodes, x).start
    \/ Nd(nodes, x).start <= Nd(nodes, y).start /\ Nd(nodes, y).end <= Nd(nodes, x).end
    \/ Nd(nodes, y).start <= Nd(nodes, x).start /\ Nd(nodes, x).end <= Nd(nodes, y).end

\* The opener run of match j lies between the opener and the closer of
\* match i, and its closer comes after the closer of match i.
PairsAcross(i, j) ==
    /\ matches[i].opener + matches[i].ocount <= matches[j].opener
    /\ matches[j].opener < matches[i].closer
    /\ matches[j].closer >= matches[i].closer + matches[i].match_count

\* C27: no opener between a matched opener and its closer pairs with a
\* later closer, and the extents of any two Strong or Emphasis nodes of the
\* tree are nested or disjoint.
C27_SpansNest ==
    /\ \A i, j \in 1..Len(matches) : ~PairsAcross(i, j)
    /\ \A x, y \in EmphasisNodes : NestedOrDisjoint(x, y)

\* A closer matched an opener below the top of the stack: an opener run of
\* the other kind between the two is now Text, and so is a later run of
\* that kind that could close.
C27_Witness ==
    \E i \in 1..Len(matches) : \E k, c \in TreeNodes :
        /\ matches[i].opener + matches[i].ocount <= k
        /\ k < matches[i].closer
        /\ Tag(nodes, k) = "Text"
        /\ B(text, Nd(nodes, k).start) \in {"*", "_"}
        /\ B(text, Nd(nodes, k).start) # B(text, Nd(nodes, matches[i].opener).start)
        /\ B(text, Nd(nodes, k).start + 1) = "a"
        /\ c > matches[i].closer
        /\ Tag(nodes, c) = "Text"
        /\ B(text, Nd(nodes, c).start) = B(text, Nd(nodes, k).start)
        /\ B(text, Nd(nodes, c).start - 1) = "a"

\* ---------------------------------------------------------------------
\* C28  The node after a Backslash.

\* The iterator is at a Backslash node.
AtBackslash ==
    pc = "iter" /\ cur # NIL /\ cur < Len(nodes) /\ Tag(nodes, cur) = "Backslash"

\* The node after k in its chain is a Text that starts at the byte after
\* the backslash, a punctuation character.
EscapedTextFollows(k) ==
    LET n == Nd(nodes, k).next
    IN  /\ n # NIL
        /\ Tag(nodes, n) = "Text"
        /\ Nd(nodes, n).start = Nd(nodes, k).start + 1
        /\ Nd(nodes, n).start < Nd(nodes, n).end
        /\ is_ascii_punctuation(B(text, Nd(nodes, n).start))

\* C28: every Backslash node the iterator reaches is followed in its chain
\* by a Text node whose first byte is the escaped punctuation character.
C28_BackslashHasText == AtBackslash => EscapedTextFollows(cur)

\* The escaped character of the Backslash node k is a backslash that ends
\* its line.
EscapesLineEndBackslash(k) ==
    /\ B(text, Nd(nodes, k).start + 1) = "\\"
    /\ Nd(nodes, k).start + 2 < Len(text)
    /\ B(text, Nd(nodes, k).start + 2) \in {"\n", "\r"}

\* The same, but for a Backslash whose escaped character is a backslash
\* before a line ending.
C28_UnlessLineEnd ==
    (AtBackslash /\ ~EscapesLineEndBackslash(cur)) => EscapedTextFollows(cur)


\* ---------------------------------------------------------------------
\* C29  The children of a List are ListItems.

\* The first pass is about to parse the line at ix.
AtLine == pc = "first_pass" /\ ix < Len(text)

\* parse_block up to the loop that opens new containers: the containers the
\* line continues, and the tree with the others popped.
Scanned == scan_containers(text, FirstPassState, LineStart_new(ix))

AfterPops == pop_times(FirstPassState, Len(spine) - Scanned.n, ix)

\* The whole of parse_block on the line at ix.
AfterBlock == parse_block(text, FirstPassState, ix).fp

\* The innermost open container is a List when the new containers of the
\* line are processed.
ListIsOpen ==
    /\ AtLine
    /\ ~Scanned.panic /\ ~AfterPops.panic /\ ~AfterBlock.panic
    /\ peek_up(AfterPops) # <<>>
    /\ Tag(AfterPops.nodes, peek_up(AfterPops)[1]) = "List"

OpenList == peek_up(AfterPops)[1]

\* Where the rest of the line begins, after the continued containers.
RestOfLine == ix + ls_bytes_scanned(Scanned.ls)

\* The marker character of a list marker at byte p of the text, read off
\* the bytes: a bullet and a space, or a digit, a delimiter and a space.
MarkerCharAt(p) ==
    IF p + 1 < Len(text) /\ B(text, p) \in {"-", "+", "*"} /\ B(text, p + 1) = " "
    THEN <<B(text, p)>>
    ELSE IF /\ p + 2 < Len(text) /\ B(text, p) \in Digits
            /\ B(text, p + 1) \in {".", ")"} /\ B(text, p + 2) = " "
    THEN <<B(text, p + 1)>>
    ELSE <<>>

ChildChain(ns, p) == Range(Chain(ns, Nd(ns, p).child))

AllChildrenAreItems ==
    \A l \in TreeNodes :
        Tag(nodes, l) = "List" =>
            \A c \in Children(l) : Tag(nodes, c) = "ListItem"

\* The first node appended on the line is a ListItem of the open list, or
\* the list was popped and keeps the children it had.
NextIsItemOrPopped ==
    ListIsOpen =>
        LET n == Len(nodes)
            r == AfterBlock
        IN  Len(r.nodes) > n =>
                \/ /\ Tag(r.nodes, n) = "ListItem"
                   /\ n \in ChildChain(r.nodes, OpenList)
                   /\ OpenList \in Range(r.spine)
                \/ /\ OpenList \notin Range(r.spine)
                   /\ ChildChain(r.nodes, OpenList)
                          = ChildChain(AfterPops.nodes, OpenList)

\* A marker with the character of the open list appends its item to it; a
\* marker with another character closes it and opens a tight List.
MarkerContinuesOrOpens ==
    (ListIsOpen /\ MarkerCharAt(RestOfLine) # <<>>) =>
        LET n == Len(nodes)
            r == AfterBlock
            ch == MarkerCharAt(RestOfLine)[1]
        IN  /\ Len(r.nodes) > n
            /\ IF ch = Nd(nodes, OpenList).body.ch
               THEN /\ Tag(r.nodes, n) = "ListItem"
                    /\ Nd(r.nodes, n).start = RestOfLine
                    /\ n \in ChildChain(r.nodes, OpenList)
                    /\ OpenList \in Range(r.spine)
               ELSE /\ OpenList \notin Range(r.spine)
                    /\ Nd(r.nodes, OpenList).end = RestOfLine
                    /\ Nd(r.nodes, OpenList).next = n
                    /\ Nd(r.nodes, n).body
                           = [tag |-> "List", is_tight |-> TRUE, ch |-> ch,
                              index |-> Nd(r.nodes, n).body.index]
                    /\ Nd(r.nodes, n).start = RestOfLine
                    /\ Len(r.nodes) > n + 1
                    /\ Tag(r.nodes, n + 1) = "ListItem"
                    /\ Nd(r.nodes, n).child = n + 1

\* C29: every child of a List node is a ListItem; when the innermost open
\* container is a List, the next node appended is a ListItem of that list
\* or the list is popped first; a list marker with the list's character
\* appends its item to the open list, one with another character closes
\* the list and opens a new List with is_tight = TRUE.
C29_ListChildrenAreItems ==
    /\ AllChildrenAreItems
    /\ NextIsItemOrPopped
    /\ MarkerContinuesOrOpens

\* A list with two items was closed by a marker with another character,
\* which opened a second, tight list after it.
C29_Witness ==
    /\ pc = "first_pass"
    /\ \E l \in TreeNodes :
           /\ Tag(nodes, l) = "List"
           /\ Cardinality(Children(l)) = 2
           /\ Nd(nodes, l).next # NIL
           /\ Tag(nodes, Nd(nodes, l).next) = "List"
           /\ Nd(nodes, Nd(nodes, l).next).body.ch # Nd(nodes, l).body.ch
           /\ Nd(nodes, Nd(nodes, l).next).body.is_tight
           /\ Nd(nodes, l).next \in Range(spine)


\* ---------------------------------------------------------------------
\* C30  Inline resolution is lazy and local.

\* Parser::next is at a node with inline markers, where it calls
\* handle_inline.
CallsHandleInline ==
    /\ pc = "iter" /\ cur # NIL /\ cur < Len(nodes)
    /\ Tag(nodes, cur) \in InlineMarkers

\* The nodes of the sibling chain from the cursor on, and what hangs from
\* them.
FromCur(ns) ==
    IF cur = NIL \/ cur >= Len(ns) THEN {} ELSE Closure(ns, {cur}, Len(ns))

\* The step keeps the body, the range and the links of node k.
KeepsNode(k) == nodes'[k + 1] = nodes[k + 1]

\* Only a step at a marker node calls handle_inline, and only such a step
\* changes the arena.
LazyStep ==
    /\ (nodes' # nodes \/ inline_at' # inline_at \/ made' # made
            \/ matches' # matches) => CallsHandleInline
    /\ (CallsHandleInline /\ pc' = "iter") => inline_at' = <<cur>>

\* The step keeps every node that does not hang from the cursor, and hangs
\* no such node below the cursor.
LocalStep ==
    /\ Len(nodes') >= Len(nodes)
    /\ \A k \in 0..(Len(nodes) - 1) : k \notin FromCur(nodes) => KeepsNode(k)
    /\ \A k \in FromCur(nodes') : k \in FromCur(nodes) \/ k >= Len(nodes)

\* C30: Parser::next calls handle_inline only when tree.cur is an Inline,
\* MaybeCode, MaybeHtml, MaybeLinkOpen or MaybeLinkClose node, and the call
\* changes only nodes of the sibling chain from tree.cur on and what hangs
\* from them: the nodes on the spine, the nodes before tree.cur and the
\* nodes of other chains keep their body, range and links, and a step at a
\* node without markers leaves the whole arena as it is.
C30_InlineLazyLocal == [][ParserNext => (LazyStep /\ LocalStep)]_vars

\* handle_inline has rewritten the node it was called at, below a container
\* on the spine, while a marker node of another chain is still unresolved.
C30_Witness ==
    /\ pc = "iter"
    /\ spine # <<>>
    /\ inline_at # <<>>
    /\ Tag(nodes, inline_at[1]) \notin InlineMarkers
    /\ \E k \in TreeNodes :
           /\ Tag(nodes, k) \in InlineMarkers
           /\ k \notin Closure(nodes, {inline_at[1]}, Len(nodes))

====
